----------------------------- MODULE FsResources -----------------------------
(* FSResources: a directory tree somebody else changes, the one watcher that *)
(* is started lazily (fsnotify for a directory of the operating system, a    *)
(* poller for any other fs.FS), the debouncer of each file, and the channels *)
(* of the subscribers of one file and of the listener for list changes.      *)
EXTENDS Integers, FiniteSets, Sequences, SequencesExt

CONSTANTS
    Files,         \* the files
    Dirs,          \* directories made while the program runs
    Root,          \* the directory served
    DirOf,         \* file -> its directory
    Parent,        \* directory -> its parent
    FileSubs,      \* the subscribers, of files
    MaxWrites      \* bound: file -> its last version

ASSUME FsAssumption ==
    /\ Files # {}
    /\ DirOf \in [Files -> Dirs \cup {Root}] /\ Parent \in [Dirs -> Dirs \cup {Root}]
    /\ MaxWrites \in [Files -> Nat]

VARIABLES
    mode,        \* "poll" or "fsnotify"
    debounced,   \* updateDebounce > 0
    dirs,        \* the directories that exist
    content,     \* file -> version; 0 when there was none yet, and
                 \* minus the last version when it is gone
    watching,    \* the watcher: "off", "starting" or "on"
    watched,     \* fsnotify: the directories with a watch
    events,      \* fsnotify: the events to be handled
    lastSnap,    \* poller: the snapshot with the last change it saw
    toMark,      \* files the running poll has still to mark
    listDue,     \* the running poll has still to notify of a change
    debouncer,   \* file -> [pending, timer, flush]
    sub,         \* subscriber -> [at, file, signal, told, base]: told is
                 \* the version its client has read, base the one the
                 \* watcher took for granted
    list         \* the listChanged listener: [on, signal, seen, blind]:
                 \* seen is what its client has listed, blind the files
                 \* of which the poller cannot see that they differ

treeVars == <<mode, debounced, dirs, content>>
watcherVars == <<watching, watched, events, lastSnap, toMark, listDue>>
fsVars == <<treeVars, watcherVars, debouncer, sub, list>>

Version(f) == IF content[f] < 0 THEN -content[f] ELSE content[f]

Present == {f \in Files : content[f] > 0}

\* snapshot: size and time of the files that are there, of others nothing.
Snapshot == [f \in Files |-> IF content[f] > 0 THEN content[f] ELSE 0]

\* Files that are there and that the last snapshot does not have: should they
\* go before the next, the poller never knew them.
Fleeting == {f \in Present : mode = "poll" /\ lastSnap[f] = 0}

\* The files about which the client's list is wrong.
Differing == (list.seen \ Present) \cup (Present \ list.seen)

FsInit ==
    /\ mode \in {"poll", "fsnotify"}
    /\ debounced \in BOOLEAN
    /\ dirs = {Root}
    /\ content = [f \in Files |-> IF DirOf[f] = Root THEN 1 ELSE 0]
    /\ watching = "off"
    /\ watched = {}
    /\ events = <<>>
    /\ lastSnap = Snapshot
    /\ toMark = {}
    /\ listDue = FALSE
    /\ debouncer = [f \in Files |-> [pending |-> FALSE, timer |-> FALSE, flush |-> "no"]]
    /\ sub = [s \in FileSubs |->
                [at |-> "out", file |-> CHOOSE f \in Files : TRUE,
                 signal |-> FALSE, told |-> 0, base |-> 0]]
    /\ list = [on |-> FALSE, signal |-> FALSE, seen |-> {}, blind |-> {}]

-----------------------------------------------------------------------------
(* The tree changes; an event is queued where a watch sees it.               *)

Seen(dir, op, name) ==
    events' = IF dir \in watched THEN Append(events, <<op, name>>) ELSE events

Mkdir(d) ==
    /\ d \in Dirs \ dirs /\ Parent[d] \in dirs
    /\ dirs' = dirs \cup {d}
    /\ Seen(Parent[d], "create", d)
    /\ UNCHANGED <<mode, debounced, content, watching, watched, lastSnap,
                   toMark, listDue, debouncer, sub, list>>

WriteFile(f) ==
    /\ DirOf[f] \in dirs /\ Version(f) < MaxWrites[f]
    /\ content' = [content EXCEPT ![f] = Version(f) + 1]
    /\ Seen(DirOf[f], IF content[f] > 0 THEN "write" ELSE "create", f)
    /\ UNCHANGED <<mode, debounced, dirs, watching, watched, lastSnap,
                   toMark, listDue, debouncer, sub, list>>

RemoveFile(f) ==
    /\ content[f] > 0
    /\ content' = [content EXCEPT ![f] = -@]
    /\ Seen(DirOf[f], "remove", f)
    /\ UNCHANGED <<mode, debounced, dirs, watching, watched, lastSnap,
                   toMark, listDue, debouncer, sub, list>>

-----------------------------------------------------------------------------
(* Subscribing.  Both ways in start the watcher, once.                       *)

StartWatcher == watching' = IF watching = "off" THEN "starting" ELSE watching

\* Register of listChanged; the client lists what is there.
RegisterList ==
    /\ ~list.on
    /\ StartWatcher
    /\ list' = [on |-> TRUE, signal |-> FALSE, seen |-> Present, blind |-> Fleeting]
    /\ UNCHANGED <<treeVars, watched, events, lastSnap, toMark, listDue,
                   debouncer, sub>>

\* Subscribe to a file that exists: start the watcher, then take the lock to
\* make the URI's notifier ...
Subscribe(s, f) ==
    /\ sub[s].at = "out" /\ f \in Present
    /\ StartWatcher
    /\ sub' = [sub EXCEPT ![s].at = "storing", ![s].file = f]
    /\ UNCHANGED <<treeVars, watched, events, lastSnap, toMark, listDue,
                   debouncer, list>>

\* ... and register the channel with it; the client reads the file then.
SubscribeStored(s) ==
    /\ sub[s].at = "storing"
    /\ sub' = [sub EXCEPT ![s].at = "on", ![s].told = content[sub[s].file]]
    /\ UNCHANGED <<treeVars, watcherVars, debouncer, list>>

\* The cancel function stops the forwarder; its channel stays registered.
CancelSubscription(s) ==
    /\ sub[s].at = "on"
    /\ sub' = [sub EXCEPT ![s].at = "cancelled"]
    /\ UNCHANGED <<treeVars, watcherVars, debouncer, list>>

-----------------------------------------------------------------------------
(* The watcher.                                                              *)

\* Files the watcher meets for the first time: their present version is the
\* baseline, which is not signalled to the subscribers of the file, whether
\* their clients have read it or not.
Baseline(new) ==
    [s \in FileSubs |-> IF sub[s].at = "on" /\ sub[s].file \in new
                        THEN [sub[s] EXCEPT !.base = content[sub[s].file]]
                        ELSE sub[s]]

\* It primes itself in its own goroutine: the poller takes a snapshot (which
\* already has what changed since the client listed), and fsnotify watches the
\* tree it finds and signals the list once.
Prime ==
    /\ watching = "starting"
    /\ watching' = "on"
    /\ IF mode = "poll"
       THEN /\ lastSnap' = Snapshot /\ UNCHANGED watched
            /\ list' = [list EXCEPT !.blind = Differing]
       ELSE watched' = dirs /\ list' = [list EXCEPT !.signal = list.on] /\ UNCHANGED lastSnap
    /\ sub' = Baseline(Files)
    /\ UNCHANGED <<treeVars, events, toMark, listDue, debouncer>>

\* A tick of the poller compares a snapshot with the last: a file in both
\* whose size or time differs is marked, any difference changes the list.
Poll ==
    /\ watching = "on" /\ mode = "poll" /\ toMark = {} /\ ~listDue
    /\ lastSnap # Snapshot
    /\ toMark' = {f \in Files : lastSnap[f] > 0 /\ content[f] > 0
                                /\ lastSnap[f] # content[f]}
    /\ listDue' = TRUE
    /\ lastSnap' = Snapshot
    /\ sub' = Baseline({f \in Files : lastSnap[f] = 0})
    /\ UNCHANGED <<treeVars, watching, watched, events, debouncer, list>>

SignalList == list' = [list EXCEPT !.signal = list.on]

PollNotifies ==
    /\ listDue /\ toMark = {}
    /\ listDue' = FALSE
    /\ SignalList
    /\ UNCHANGED <<treeVars, watching, watched, events, lastSnap, toMark,
                   debouncer, sub>>

\* Signals to the subscribers of a file, as its notifier sends them.
Notified(f) ==
    [s \in FileSubs |-> IF sub[s].at = "on" /\ sub[s].file = f
                        THEN [sub[s] EXCEPT !.signal = TRUE] ELSE sub[s]]

\* markUpdated, hence trigger: fire at once, or arm the timer unless a flush
\* is pending.
Trigger(f) ==
    IF ~debounced
    THEN sub' = Notified(f) /\ UNCHANGED debouncer
    ELSE /\ debouncer' = [debouncer EXCEPT ![f] =
                IF @.pending THEN @ ELSE [@ EXCEPT !.pending = TRUE, !.timer = TRUE]]
         /\ UNCHANGED sub

PollMarks(f) ==
    /\ f \in toMark
    /\ toMark' = toMark \ {f}
    /\ Trigger(f)
    /\ UNCHANGED <<treeVars, watching, watched, events, lastSnap, listDue, list>>

\* Fault: the watcher is not told of new directories.
WatchedAfterForgets(op, name) == watched

\* The watch that a created directory gets.
WatchedAfter(op, name) ==
    IF op = "create" /\ name \in dirs THEN watched \cup {name} ELSE watched

\* One fsnotify event: creations and removals signal the list, writes mark
\* the file.
HandleEvent ==
    /\ events # <<>>
    /\ LET op == Head(events)[1]  name == Head(events)[2]
       IN  /\ watched' = WatchedAfter(op, name)
           /\ IF op = "write" THEN Trigger(name) /\ UNCHANGED list
                              ELSE /\ SignalList
                                   /\ sub' = Baseline({f \in Files : name \in {f, DirOf[f]}})
                                   /\ UNCHANGED debouncer
    /\ events' = Tail(events)
    /\ UNCHANGED <<treeVars, watching, lastSnap, toMark, listDue>>

-----------------------------------------------------------------------------
(* The debouncer's timer, and the readers of the channels.                   *)

TimerExpires(f) ==
    /\ debouncer[f].timer /\ debouncer[f].flush = "no"
    /\ debouncer' = [debouncer EXCEPT ![f].timer = FALSE, ![f].flush = "started"]
    /\ UNCHANGED <<treeVars, watcherVars, sub, list>>

\* Fault: flush does not reset pending.
FlushKeepsPending(f) ==
    /\ debouncer[f].flush = "started"
    /\ debouncer' = [debouncer EXCEPT ![f].flush = "firing"]
    /\ UNCHANGED <<treeVars, watcherVars, sub, list>>

Flush(f) ==
    /\ debouncer[f].flush = "started"
    /\ debouncer' = [debouncer EXCEPT ![f].pending = FALSE, ![f].flush = "firing"]
    /\ UNCHANGED <<treeVars, watcherVars, sub, list>>

\* fire looks the notifier up, without the lock, and signals.
Fire(f) ==
    /\ debouncer[f].flush = "firing"
    /\ debouncer' = [debouncer EXCEPT ![f].flush = "no"]
    /\ sub' = Notified(f)
    /\ UNCHANGED <<treeVars, watcherVars, list>>

\* The forwarder emits resources/updated, and the client reads the file.
Forward(s) ==
    /\ sub[s].at = "on" /\ sub[s].signal
    /\ sub' = [sub EXCEPT ![s].signal = FALSE, ![s].told = content[sub[s].file]]
    /\ UNCHANGED <<treeVars, watcherVars, debouncer, list>>

\* The listener emits list_changed, and the client lists again.
ListAgain ==
    /\ list.signal
    /\ list' = [list EXCEPT !.signal = FALSE, !.seen = Present, !.blind = Fleeting]
    /\ UNCHANGED <<treeVars, watcherVars, debouncer, sub>>

FsNext ==
    \/ \E d \in Dirs : Mkdir(d)
    \/ \E f \in Files :
          \/ WriteFile(f) \/ RemoveFile(f) \/ PollMarks(f)
          \/ TimerExpires(f) \/ Flush(f) \/ Fire(f)
          \/ \E s \in FileSubs : Subscribe(s, f)
    \/ \E s \in FileSubs : SubscribeStored(s) \/ CancelSubscription(s) \/ Forward(s)
    \/ RegisterList \/ ListAgain
    \/ Prime \/ Poll \/ PollNotifies \/ HandleEvent

FsSpec == FsInit /\ [][FsNext]_fsVars

-----------------------------------------------------------------------------

Queued(op, f) == Contains(events, <<op, f>>)

(* An update of a file is never lost once the watcher runs: a subscriber     *)
(* whose client has an old version is signalled, or the watcher will see the *)
(* change, or the file's debouncer will fire after it.  (Not so a version    *)
(* the watcher took for granted: the one it primed itself with, and that of  *)
(* a file it met as added.)                                                  *)
FileUpdateReaches ==
    \A s \in FileSubs :
        LET f == sub[s].file
        IN  (watching = "on" /\ sub[s].at = "on" /\ content[f] > 0
                /\ content[f] \notin {sub[s].told, sub[s].base}) =>
                \/ sub[s].signal
                \/ mode = "poll" /\ lastSnap[f] # content[f]
                \/ Queued("write", f) \/ Queued("create", f)
                \/ mode = "fsnotify" /\ DirOf[f] \notin watched
                \/ f \in toMark
                \/ debouncer[f].timer \/ debouncer[f].flush # "no"

\* A directory that was made inside a new one before that had its watch never
\* gets one.  Directories of the root do.
MissedBelow ==
    /\ dirs \ watched # {}
    /\ \A d \in dirs \ watched : d # Root /\ Parent[d] # Root

(* A listing is left stale in two ways only: while the client's list of      *)
(* files differs from the tree, the listener is signalled or the watcher has *)
(* a change to handle, files in directories made later included, unless      *)
(* fsnotify missed a directory inside a new one, or the poller is blind to   *)
(* every difference: files that were there between two of its ticks only,    *)
(* and files that came or went between Register and the first snapshot,      *)
(* which runPoller, unlike runFsnotify, follows with no signal.              *)
ListingRefreshed ==
    (watching = "on" /\ list.on /\ list.seen # Present) =>
        \/ list.signal
        \/ mode = "poll" /\ (listDue \/ lastSnap # Snapshot \/ Differing \subseteq list.blind)
        \/ mode = "fsnotify" /\ (events # <<>> \/ MissedBelow)

(* But for these cases no change of the tree goes unseen, neither of a file  *)
(* nor of the listing.                                                       *)
NoChangeUnseen == FileUpdateReaches /\ ListingRefreshed
=============================================================================
