------------------------- MODULE ResourcesContainer -------------------------
(* The ResourcesContainer: a slice of resources with an index into it, which *)
(* the methods keep in step, the templates, and one notifier per URI, which  *)
(* a method signals after it released the lock.  A resource is               *)
(* [uri, meta, body]: meta stands for name, description and MIME type, body  *)
(* for the variants (NoBody for none).                                       *)
EXTENDS Naturals, Sequences, SequencesExt

CONSTANTS
    ResourceURIs,  \* the URIs, "" among them
    EmptyURI,      \* the URI ""
    Metas,         \* metadata
    Bodies,        \* content variants
    NoBody,        \* no variants
    Replacements,  \* arguments of ReplaceResources
    Templates,     \* the uriTemplates, "" among them
    Watchers,      \* the holders of a channel from UpdatedChan
    Absent,        \* no URI, no reader
    MaxResources   \* bound: resources in the slice

VARIABLES
    resources,   \* the slice
    uriSet,      \* uri -> index into it
    templates,   \* the templates, by uriTemplate, in order
    notifiers,   \* uri -> the watchers of its notifier (updatedNotifiers)
    marks,       \* the markUpdated calls that methods still have to make
    watcher,     \* watcher -> [uri, signal, body: what its client read last]
    unmarked,    \* the URIs whose present resource came without markUpdated
    reader,      \* the URI of a ReadResource between its two sections
    stuck        \* a ReadResource panicked and left the read lock taken

resourceVars == <<resources, uriSet, templates, notifiers, marks, watcher,
                  unmarked, reader, stuck>>

AResource == [uri : ResourceURIs, meta : Metas, body : Bodies \cup {NoBody}]

\* ReplaceResources passes over resources without a URI.
Listable(rs) == SelectSeq(rs, LAMBDA r : r.uri # EmptyURI)

\* (That a selection of resources is a list of resources is stated for the
\* provers, which do not know SelectSeq.)
ASSUME ResourcesAssumption ==
    /\ Absent \notin ResourceURIs
    /\ \A rs \in Replacements : rs \in Seq(AResource) /\ Listable(rs) \in Seq(AResource)

ResourceInit ==
    /\ resources = <<>>
    /\ uriSet = [u \in {} |-> 0]
    /\ templates = <<>>
    /\ notifiers = [u \in {} |-> {}]
    /\ marks = {}
    /\ watcher = [w \in Watchers |-> [uri |-> Absent, signal |-> FALSE, body |-> NoBody]]
    /\ unmarked = {}
    /\ reader = Absent
    /\ stuck = FALSE

Put(f, k, v) == [x \in DOMAIN f \cup {k} |-> IF x = k THEN v ELSE f[x]]
Without(f, ks) == [x \in DOMAIN f \ ks |-> f[x]]

\* Read: the content of a listed URI.
ReadBody(u) == resources[uriSet[u]].body

-----------------------------------------------------------------------------
(* The methods that change resources.  Only markUpdated is outside the lock, *)
(* which they wait for in vain once a reader has left it taken.              *)

AddResource(r) ==
    /\ ~stuck
    /\ r.uri # EmptyURI /\ r.uri \notin DOMAIN uriSet
    /\ Len(resources) < MaxResources
    /\ resources' = Append(resources, r)
    /\ uriSet' = Put(uriSet, r.uri, Len(resources) + 1)
    /\ unmarked' = unmarked \cup {r.uri}
    /\ UNCHANGED <<templates, notifiers, marks, watcher, reader, stuck>>

\* Fault: the update is reported only when the metadata changed too.
UpdatedByUpsertMeta(r) ==
    /\ r.uri \in DOMAIN uriSet
    /\ r.meta # resources[uriSet[r.uri]].meta

\* Whether UpsertResource goes on to markUpdated: the variants of a resource
\* changed, or a new one has some.
UpdatedByUpsert(r) ==
    IF r.uri \in DOMAIN uriSet THEN ReadBody(r.uri) # r.body ELSE r.body # NoBody

UpsertResource(r) ==
    /\ ~stuck
    /\ r.uri # EmptyURI
    /\ IF r.uri \in DOMAIN uriSet
       THEN /\ resources' = [resources EXCEPT ![uriSet[r.uri]] = r]
            /\ UNCHANGED uriSet
       ELSE /\ Len(resources) < MaxResources
            /\ resources' = Append(resources, r)
            /\ uriSet' = Put(uriSet, r.uri, Len(resources) + 1)
    /\ marks' = IF UpdatedByUpsert(r) THEN marks \cup {r.uri} ELSE marks
    /\ unmarked' = IF r.uri \in DOMAIN uriSet
                  THEN IF ReadBody(r.uri) = r.body THEN unmarked ELSE unmarked \ {r.uri}
                  ELSE IF r.body = NoBody THEN unmarked \cup {r.uri}
                                          ELSE unmarked \ {r.uri}
    /\ UNCHANGED <<templates, notifiers, watcher, reader, stuck>>

\* Fault: the index of the resource that was moved is not corrected.
IndexAfterRemoveStale(u) == Without(uriSet, {u})

\* The last resource is moved into the hole, and its index with it.  (One of
\* several with its URI, it takes the place of the one the index led to.)
IndexAfterRemove(u) ==
    Without(Put(uriSet, resources[Len(resources)].uri, uriSet[u]), {u})

RemoveResource(u) ==
    /\ ~stuck
    /\ u \in DOMAIN uriSet
    /\ resources' = SubSeq([resources EXCEPT ![uriSet[u]] = resources[Len(resources)]],
                           1, Len(resources) - 1)
    /\ uriSet' = IndexAfterRemove(u)
    /\ LET last == resources[Len(resources)].uri
       IN  unmarked' = IF last \in DOMAIN uriSet /\ uriSet[last] = Len(resources)
                       THEN unmarked ELSE unmarked \cup {last}
    /\ UNCHANGED <<templates, notifiers, marks, watcher, reader, stuck>>

\* ReplaceResources: the last of several with one URI is indexed; the
\* notifiers of URIs that go are dropped, everything with content is marked.
ReplaceResources(rs) ==
    LET new == Listable(rs)
        uris == {r.uri : r \in ToSet(new)}
        full == {r.uri : r \in {s \in ToSet(new) : s.body # NoBody}}
    IN  /\ ~stuck
        /\ resources' = new
        /\ uriSet' = [u \in uris |-> CHOOSE i \in DOMAIN new :
                        /\ new[i].uri = u
                        /\ \A j \in DOMAIN new : new[j].uri = u => j <= i]
        /\ notifiers' = Without(notifiers, DOMAIN uriSet \ uris)
        /\ marks' = marks \cup full
        /\ unmarked' = (unmarked \cup uris) \ full
        /\ UNCHANGED <<templates, watcher, reader, stuck>>

\* markUpdated looks the notifier up again and signals whoever has it.  (Two
\* calls outstanding for one URI would only signal twice: they are one mark.)
MarkUpdated(u) ==
    /\ u \in marks
    /\ marks' = marks \ {u}
    /\ watcher' = [w \in Watchers |->
                     IF u \in DOMAIN notifiers /\ w \in notifiers[u]
                     THEN [watcher[w] EXCEPT !.signal = TRUE] ELSE watcher[w]]
    /\ UNCHANGED <<resources, uriSet, templates, notifiers, unmarked, reader, stuck>>

-----------------------------------------------------------------------------
(* Templates.                                                                *)

AddTemplate(t) ==
    /\ ~stuck
    /\ t # EmptyURI /\ ~Contains(templates, t) /\ Len(templates) < MaxResources
    /\ templates' = Append(templates, t)
    /\ UNCHANGED <<resources, uriSet, notifiers, marks, watcher, unmarked, reader, stuck>>

RemoveTemplate(t) ==
    /\ ~stuck
    /\ Contains(templates, t)
    /\ templates' = SelectSeq(templates, LAMBDA x : x # t)
    /\ UNCHANGED <<resources, uriSet, notifiers, marks, watcher, unmarked, reader, stuck>>

\* Replacing checks nothing: "" and duplicates are taken.
ReplaceTemplates(ts) ==
    /\ ~stuck
    /\ templates' = ts
    /\ UNCHANGED <<resources, uriSet, notifiers, marks, watcher, unmarked, reader, stuck>>

-----------------------------------------------------------------------------
(* Watchers and readers.                                                     *)

\* UpdatedChan makes the notifier if need be; the client reads what is there.
UpdatedChan(w, u) ==
    /\ ~stuck
    /\ watcher[w].uri = Absent
    /\ notifiers' = Put(notifiers, u,
                        {w} \cup (IF u \in DOMAIN notifiers THEN notifiers[u] ELSE {}))
    /\ watcher' = [watcher EXCEPT ![w] =
                     [uri |-> u, signal |-> FALSE,
                      body |-> IF u \in DOMAIN uriSet THEN ReadBody(u) ELSE NoBody]]
    /\ UNCHANGED <<resources, uriSet, templates, marks, unmarked, reader, stuck>>

\* A signalled watcher has its client read the resource again.
Reread(w) ==
    /\ watcher[w].signal
    /\ LET u == watcher[w].uri
       IN  watcher' = [watcher EXCEPT ![w].signal = FALSE,
                         ![w].body = IF u \in DOMAIN uriSet THEN ReadBody(u) ELSE @]
    /\ UNCHANGED <<resources, uriSet, templates, notifiers, marks, unmarked, reader, stuck>>

\* ReadResource, first section: Read copies the variants.
ReadBegin(u) ==
    /\ reader = Absent /\ u \in DOMAIN uriSet
    /\ reader' = u
    /\ UNCHANGED <<resources, uriSet, templates, notifiers, marks, watcher, unmarked, stuck>>

\* The index a Go map gives for a URI: the first one when it is not there.
IndexOrZero(u) == IF u \in DOMAIN uriSet THEN uriSet[u] ELSE 1

\* ReadResource, second section: the default MIME type, at an index looked up
\* again.  Past the end of the slice this is a panic between RLock and
\* RUnlock: net/http recovers it, and the read lock stays taken.
ReadEnd ==
    /\ reader # Absent
    /\ reader' = Absent
    /\ stuck' = (stuck \/ IndexOrZero(reader) \notin DOMAIN resources)
    /\ UNCHANGED <<resources, uriSet, templates, notifiers, marks, watcher, unmarked>>

ResourceNext ==
    \/ \E r \in AResource : AddResource(r) \/ UpsertResource(r)
    \/ \E rs \in Replacements : ReplaceResources(rs)
    \/ \E u \in ResourceURIs :
          RemoveResource(u) \/ MarkUpdated(u) \/ ReadBegin(u)
    \/ ReadEnd
    \/ \E t \in Templates :
          AddTemplate(t) \/ RemoveTemplate(t) \/ ReplaceTemplates(<<t, t>>)
    \/ \E w \in Watchers : Reread(w) \/ \E u \in ResourceURIs : UpdatedChan(w, u)

ResourceSpec == ResourceInit /\ [][ResourceNext]_resourceVars

-----------------------------------------------------------------------------

(* The index leads to the resource it names, whatever sequence of additions, *)
(* swap deletions and replacements (with duplicate URIs) came before: Read   *)
(* never returns another resource's content.                                 *)
IndexSound ==
    \A u \in DOMAIN uriSet :
        uriSet[u] \in DOMAIN resources /\ resources[uriSet[u]].uri = u

(* The second section of ReadResource, whose URI may be gone by then, panics *)
(* only when the container was emptied in between; after that no method can  *)
(* fill it again, for want of the lock the panic left taken.                 *)
PanicsOnlyEmptied == stuck => resources = <<>>

(* The holder of a URI's notifier whose client has old content is signalled  *)
(* or about to be: a read lock and a map lookup lie between the change and   *)
(* the signal.  Outside of this, and against UpdatedChan's comment, which    *)
(* has the channel "signaled when URI content/metadata changes", are         *)
(*   - a notifier that ReplaceResources dropped: its channel stays silent;   *)
(*   - the members of unmarked: a resource put back by AddResource, or       *)
(*     without content, or changed by a swap deletion that moved a duplicate *)
(*     of its URI;                                                           *)
(*   - a change of the metadata alone, which no method signals.              *)
UpdateIsSignalled ==
    \A u \in DOMAIN notifiers : \A w \in notifiers[u] :
        (u \in DOMAIN uriSet /\ u \notin unmarked) =>
            \/ watcher[w].body = ReadBody(u)
            \/ watcher[w].signal
            \/ u \in marks

(* Read finds the resource it names, a ReadResource panics only over an      *)
(* emptied container, and a watcher hears of the changes of content that the *)
(* code marks.                                                               *)
ContentIsCurrent == IndexSound /\ PanicsOnlyEmptied /\ UpdateIsSignalled
=============================================================================
