--------------------------- MODULE ToolsContainer ---------------------------
(* ToolsContainer and PromptsContainer, which share their shape: an ordered  *)
(* list of descriptors that the client pages through, and a map from names   *)
(* to handlers that calls are dispatched with.  Every method is one critical *)
(* section; a client takes its pages in separate requests, between which the *)
(* list may change.                                                          *)
EXTENDS Integers, Sequences, SequencesExt

CONSTANTS
    Definitions,     \* the StaticTools or StaticPrompts: [name, handler]
    EmptyName,       \* the name ""
    NoHandler,       \* a nil handler
    PromptPageSize,  \* the page size written into ListPrompts (50)
    PageSizes,       \* arguments of SetPageSize
    MaxListed        \* bound: descriptors in the list

ASSUME PageAssumption == PromptPageSize \in Nat \ {0} /\ PageSizes \subseteq Int

VARIABLES
    kind,       \* "tools" or "prompts"
    listed,     \* the descriptors, in order
    handlers,   \* name -> handler
    pageSize,   \* pageSize
    walk        \* a client paging: [cursor, got, undisturbed]

containerVars == <<kind, listed, handlers, pageSize, walk>>

NoCursor == -1   \* a nil cursor

-----------------------------------------------------------------------------

\* Fault: the next cursor counts from one.
ItemsSkipping(all, size, start) ==
    LET end == IF start + size > Len(all) THEN Len(all) ELSE start + size
    IN  [items |-> SubSeq(all, start + 1, end),
         next  |-> IF end < Len(all) THEN end + 1 ELSE NoCursor]

\* The page that starts at an offset, with the cursor of the next one.
Items(all, size, start) ==
    LET end == IF start + size > Len(all) THEN Len(all) ELSE start + size
    IN  [items |-> SubSeq(all, start + 1, end),
         next  |-> IF end < Len(all) THEN end ELSE NoCursor]

\* parseCursor: absent, malformed and negative cursors mean the start.
ParseCursor(cursor) == IF cursor < 0 THEN 0 ELSE cursor

\* ListTools, ListPrompts and pageSlice: an offset past the end starts again.
PageOrRestart(all, size, cursor) ==
    Items(all, size, IF ParseCursor(cursor) > Len(all) THEN 0
                                                       ELSE ParseCursor(cursor))

-----------------------------------------------------------------------------

Named(name) == {i \in DOMAIN listed : listed[i].name = name}

\* The handlers a list of definitions leaves: on a duplicate name the last
\* handler wins, a nil handler does not count.
HandlersOf(defs) ==
    [n \in {d.name : d \in {e \in ToSet(defs) : e.handler # NoHandler}} |->
        LET i == CHOOSE i \in DOMAIN defs :
                    /\ defs[i].name = n /\ defs[i].handler # NoHandler
                    /\ \A j \in DOMAIN defs :
                          defs[j].name = n /\ defs[j].handler # NoHandler => j <= i
        IN  defs[i].handler]

\* The two constructors replace the empty list with their arguments.
ContainerInit ==
    /\ kind \in {"tools", "prompts"}
    /\ \E defs \in {<<>>} \cup {<<d>> : d \in Definitions} :
          listed = defs /\ handlers = HandlersOf(defs)
    /\ pageSize = PromptPageSize
    /\ walk = [cursor |-> NoCursor, got |-> <<>>, undisturbed |-> TRUE]

Disturbed == [walk EXCEPT !.undisturbed = (walk.cursor = NoCursor)]

ReplaceDefinitions(defs) ==
    /\ listed' = defs
    /\ handlers' = HandlersOf(defs)
    /\ walk' = Disturbed
    /\ UNCHANGED <<kind, pageSize>>

\* Add refuses a name that is listed or callable; prompts refuse "" too.
AddDefinition(d) ==
    /\ Len(listed) < MaxListed
    /\ d.name \notin DOMAIN handlers
    /\ Named(d.name) = {}
    /\ kind = "prompts" => d.name # EmptyName
    /\ listed' = Append(listed, d)
    /\ handlers' = IF d.handler = NoHandler THEN handlers
                   ELSE [n \in DOMAIN handlers \cup {d.name} |->
                            IF n = d.name THEN d.handler ELSE handlers[n]]
    /\ UNCHANGED <<kind, pageSize, walk>>

\* The loop of Remove: what it keeps of a list.
KeptOf(defs, name) ==
    LET kept[i \in 0..Len(defs)] ==
            IF i = 0 THEN <<>>
            ELSE IF defs[i].name = name THEN kept[i - 1] ELSE Append(kept[i - 1], defs[i])
    IN  kept[Len(defs)]

\* Fault: Remove forgets the handler.
RemoveKeepsHandler(name) ==
    /\ Named(name) # {}
    /\ listed' = KeptOf(listed, name)
    /\ walk' = Disturbed
    /\ UNCHANGED <<kind, handlers, pageSize>>

\* Remove drops every descriptor of the name and its handler.
RemoveDefinition(name) ==
    /\ Named(name) # {}
    /\ listed' = KeptOf(listed, name)
    /\ handlers' = [n \in DOMAIN handlers \ {name} |-> handlers[n]]
    /\ walk' = Disturbed
    /\ UNCHANGED <<kind, pageSize>>

SetPageSize(n) ==
    /\ n > 0
    /\ pageSize' = n
    /\ UNCHANGED <<kind, listed, handlers, walk>>

\* The client asks for a page with the cursor of its last answer; once there
\* is none it starts over.  ListPrompts does not use pageSize.
ListPage ==
    LET size == IF kind = "tools" THEN pageSize ELSE PromptPageSize
        page == PageOrRestart(listed, size, walk.cursor)
        sofar == IF walk.cursor = NoCursor THEN <<>> ELSE walk.got
    IN  /\ walk' = [cursor |-> page.next, got |-> sofar \o page.items,
                    undisturbed |-> (walk.cursor = NoCursor \/ walk.undisturbed)]
        /\ UNCHANGED <<kind, listed, handlers, pageSize>>

\* Call and Get: the handler the name is dispatched to.
Call(name) ==
    IF name # EmptyName /\ name \in DOMAIN handlers THEN handlers[name] ELSE NoHandler

ContainerNext ==
    \/ \E d, e \in Definitions : ReplaceDefinitions(<<d, e>>)
    \/ ReplaceDefinitions(<<>>)
    \/ \E d \in Definitions : AddDefinition(d) \/ RemoveDefinition(d.name)
    \/ \E n \in PageSizes : SetPageSize(n)
    \/ ListPage

ContainerSpec == ContainerInit /\ [][ContainerNext]_containerVars

-----------------------------------------------------------------------------

(* A call reaches the handler of the last listed definition of its name that *)
(* has one, and nothing when no listed definition has one: replacing, adding *)
(* and removing keep the list the client sees and the dispatch together.     *)
DispatchMatchesList ==
    \A d \in Definitions :
        LET able == {i \in Named(d.name) : listed[i].handler # NoHandler}
        IN  Call(d.name) =
               IF able = {} \/ d.name = EmptyName THEN NoHandler
               ELSE listed[CHOOSE i \in able : \A j \in able : j <= i].handler

(* A client that follows the cursors while nothing but Add and SetPageSize   *)
(* touches the list holds, at every page, exactly the descriptors up to its  *)
(* cursor, in order: nothing is skipped and nothing comes twice.             *)
WalkSkipsNothing ==
    (walk.undisturbed /\ walk.cursor # NoCursor) =>
        walk.got = SubSeq(listed, 1, walk.cursor)

(* What a client lists, page by page, is what its calls reach.               *)
ListedIsServed == DispatchMatchesList /\ WalkSkipsNothing
=============================================================================
