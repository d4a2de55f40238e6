----------------------------- MODULE ToolWriter -----------------------------
(* The toolResponseWriter of one call, used by the goroutines a tool handler *)
(* starts: they append blocks and set flags while another one, or the        *)
(* adapter that ran the handler, takes the result.  A write looks at the     *)
(* context before it asks for the lock.                                      *)
EXTENDS Naturals, Sequences, SequencesExt

CONSTANTS
    Writers,     \* the goroutines; each appends one block, its own name
    NoResult     \* Result was not called yet

VARIABLES
    cancelled,   \* the context of the call is done
    finalized,   \* finalized
    blocks,      \* the blocks appended
    isError,     \* isError
    writer,      \* goroutine -> "idle", "locking", "ok" or "refused"
    result       \* what the first Result returned

writerVars == <<cancelled, finalized, blocks, isError, writer, result>>

WriterInit ==
    /\ cancelled = FALSE
    /\ finalized = FALSE
    /\ blocks = <<>>
    /\ isError = FALSE
    /\ writer = [w \in Writers |-> "idle"]
    /\ result = NoResult

Cancel == ~cancelled /\ cancelled' = TRUE
          /\ UNCHANGED <<finalized, blocks, isError, writer, result>>

\* AppendBlocks, before the lock: a cancelled call refuses.
AppendStarts(w) ==
    /\ writer[w] = "idle"
    /\ writer' = [writer EXCEPT ![w] = IF cancelled THEN "refused" ELSE "locking"]
    /\ UNCHANGED <<cancelled, finalized, blocks, isError, result>>

\* Fault: finalization is not looked at under the lock.
AppendLate(w) ==
    /\ writer[w] = "locking"
    /\ writer' = [writer EXCEPT ![w] = "ok"]
    /\ blocks' = Append(blocks, w)
    /\ UNCHANGED <<cancelled, finalized, isError, result>>

\* AppendBlocks, under the lock: ErrFinalized, or the block is taken.
AppendLocked(w) ==
    /\ writer[w] = "locking"
    /\ writer' = [writer EXCEPT ![w] = IF finalized THEN "refused" ELSE "ok"]
    /\ blocks' = IF finalized THEN blocks ELSE Append(blocks, w)
    /\ UNCHANGED <<cancelled, finalized, isError, result>>

\* SetError (and SetMeta alike): neither context nor finalization is looked at.
SetError ==
    /\ isError' = ~isError
    /\ UNCHANGED <<cancelled, finalized, blocks, writer, result>>

\* Result finalizes; called again it builds the answer anew.
Result ==
    /\ finalized' = TRUE
    /\ result' = IF result = NoResult THEN [content |-> blocks, isError |-> isError]
                                      ELSE result
    /\ UNCHANGED <<cancelled, blocks, isError, writer>>

WriterNext ==
    \/ Cancel \/ SetError \/ Result
    \/ \E w \in Writers : AppendStarts(w) \/ AppendLocked(w)

WriterSpec == WriterInit /\ [][WriterNext]_writerVars

(* A block is in the result exactly if its append was accepted: nothing is   *)
(* acknowledged that the answer leaves out, whoever takes the result when.   *)
AcceptedIsReturned ==
    result # NoResult =>
        ToSet(result.content) = {w \in Writers : writer[w] = "ok"}
=============================================================================
