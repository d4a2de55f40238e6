------------------------------- MODULE JsonRpc -------------------------------
(***************************************************************************)
(* JSON-RPC messages as the transports read them (internal/jsonrpc).  A    *)
(* message is what a JSON object can say: which members it has and what    *)
(* its id is; the members' contents are left out.                          *)
(***************************************************************************)
EXTENDS Naturals

CONSTANTS
    Mantissa,    \* bits of a float64's mantissa (53 in the code)
    NumberIDs,   \* numeric ids a client may use
    StringIDs    \* strings it may use as ids

Exact == 2 ^ Mantissa   \* the last of the integers a float64 counts one by one

\* (That a power of two is a natural number is stated for the provers.)
ASSUME JsonRpcAssumption ==
    Mantissa \in Nat /\ Exact \in Nat /\ NumberIDs \subseteq 0..(2 * Exact)

NoID  == [type |-> "none", value |-> 0]   \* no id, or null: a nil pointer
BadID == [type |-> "object", value |-> 0] \* neither a string nor a number
IDs   == {NoID} \cup [type : {"number"}, value : NumberIDs]
                \cup [type : {"string"}, value : StringIDs]

\* A number becomes a float64: beyond Exact only every other integer is one,
\* and a tie goes to the even mantissa.
ToFloat(n) == IF n <= Exact \/ n % 2 = 0 THEN n
              ELSE IF (n - 1) % 4 = 0 THEN n - 1 ELSE n + 1

\* RequestID.UnmarshalJSON tries a number, then a string.
UnmarshalID(id) ==
    IF id.type = "number" THEN [id EXCEPT !.value = ToFloat(id.value)] ELSE id

\* Fault: an empty string is no id either.
IsNilEmpty(id) == id.type = "none" \/ (id.type = "string" /\ id.value = "")

IsNil(id) == id.type = "none"

\* The objects a client may send: rpc is the version, method "" stands for none.
Objects == [rpc : {"2.0", "1.0"}, method : {"", "initialize", "initialized", "other"},
            params : {"good", "bad"}, result : BOOLEAN, error : BOOLEAN,
            id : IDs \cup {BadID}]

\* AnyMessage.UnmarshalJSON accepts a request without result and error, or a
\* response with one of them.
Valid(o) ==
    /\ o.id # BadID
    /\ o.rpc = "2.0"
    /\ IF o.method # "" THEN ~o.result /\ ~o.error ELSE o.result # o.error

Unmarshal(o) == [o EXCEPT !.id = UnmarshalID(o.id)]

\* AsRequest and AsResponse: one of them is not nil.
AsRequest(m)  == m.method # ""
AsResponse(m) == m.method = ""
=============================================================================
