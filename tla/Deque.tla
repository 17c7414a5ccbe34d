------------------------------- MODULE Deque -------------------------------
(***************************************************************************)
(* deque.c: a doubly linked list with a head (right end), a tail (left     *)
(* end) and a count.  The heap is explicit: a pointer to a freed node may  *)
(* survive, and hold again once malloc returns the node.  A step that      *)
(* dereferences NULL or a freed node makes wild TRUE; nothing is said of   *)
(* what follows, so the content of a freed node is forgotten.              *)
(***************************************************************************)
EXTENDS Integers, Sequences, FiniteSets

CONSTANTS
    Node,   \* the memory malloc hands out
    Value,  \* the items
    Null,
    CountBits   \* width of number_items, 32 in the code

ASSUME NullAssumption == Null \notin Node \cup Value
ASSUME WidthAssumption == CountBits \in Nat
ASSUME NodeAssumption == IsFiniteSet(Node) /\ Cardinality(Node) < 2^CountBits

VARIABLES
    live,           \* nodes allocated and not freed
    value, next, prev,   \* the fields of each node
    head, tail, number_items,
    result,         \* what the last call returned
    wild,
    use             \* history: the functions the client has called

heap_vars == <<live, value, next, prev>>
vars == <<heap_vars, head, tail, number_items, result, wild, use>>

Pointer == Node \cup {Null}
Counted(n) == n % 2^CountBits

Init ==
    /\ live = {}
    /\ value = [n \in Node |-> Null]
    /\ next = [n \in Node |-> Null] /\ prev = [n \in Node |-> Null]
    /\ head = Null /\ tail = Null /\ number_items = 0
    /\ result = <<"item", Null>>
    /\ wild = FALSE
    /\ use = "grow"

(***************************************************************************)
(* The functions fall into those that read or grow the list at the head,   *)
(* as the scanner does; pop; those that read it from the tail; and those   *)
(* that go wrong by themselves.  A client may add pop to the first group,  *)
(* or the third; any other mixture is "other".                             *)
(***************************************************************************)
Call(group) ==
    /\ ~wild
    /\ use' = IF group \in {"grow", use} THEN use
              ELSE IF use = "grow" THEN group ELSE "other"

Wild ==
    /\ wild' = TRUE
    /\ UNCHANGED <<heap_vars, head, tail, number_items, result>>

Dangling(p) == p \notin live

Free(gone) ==
    /\ live' = live \ gone
    /\ value' = [n \in Node |-> IF n \in gone THEN Null ELSE value[n]]

Links(field, gone) == [n \in Node |-> IF n \in gone THEN Null ELSE field[n]]

(***************************************************************************)
(* The nodes met from a pointer along a field, up to NULL; a walk of more  *)
(* nodes than there are goes round in circles.                             *)
(***************************************************************************)
Hop(from, field, k) ==
    LET at[n \in 0 .. k] ==
            IF n = 0 THEN from
            ELSE IF at[n - 1] = Null THEN Null ELSE field[at[n - 1]]
    IN at[k]

Size == Cardinality(Node)
Steps(from, field) ==
    CHOOSE k \in 0 .. Size + 1 :
        /\ k <= Size => Hop(from, field, k) = Null
        /\ \A n \in 0 .. k - 1 : Hop(from, field, n) # Null
Walk(from, field) == [n \in 1 .. Steps(from, field) |-> Hop(from, field, n - 1)]
Met(walk) == {walk[n] : n \in DOMAIN walk}
Safe(walk) == Len(walk) <= Size /\ Met(walk) \subseteq live

NoMemoryCounted ==
    /\ live = Node
    /\ number_items' = Counted(number_items + 1)
    /\ UNCHANGED <<heap_vars, head, tail, result, wild>>

\* when malloc fails the deque is as before
NoMemory ==
    /\ live = Node
    /\ UNCHANGED <<heap_vars, head, tail, number_items, result, wild>>

AppendRight(v) ==
    /\ Call("grow")
    /\ \/ /\ head = Null \/ ~Dangling(head)
          /\ \E new \in Node \ live :
                /\ live' = live \cup {new}
                /\ value' = [value EXCEPT ![new] = v]
                /\ prev' = [prev EXCEPT ![new] = head]
                /\ next' = [n \in Node |-> IF n = new THEN Null
                                           ELSE IF n = head THEN new
                                           ELSE next[n]]
                /\ tail' = IF tail = Null THEN new ELSE tail
                /\ head' = new
          /\ number_items' = Counted(number_items + 1)
          /\ UNCHANGED <<result, wild>>
       \/ head # Null /\ Dangling(head) /\ Wild
       \/ NoMemory

AppendLeft(v) ==
    /\ Call("other")
    /\ \/ /\ tail = Null \/ ~Dangling(tail)
          /\ \E new \in Node \ live :
                /\ live' = live \cup {new}
                /\ value' = [value EXCEPT ![new] = v]
                /\ next' = [next EXCEPT ![new] = tail]
                /\ prev' = [n \in Node |-> IF n = new THEN Null
                                           ELSE IF n = tail THEN new
                                           ELSE prev[n]]
                /\ head' = IF head = Null THEN tail ELSE head
                /\ tail' = new
          /\ number_items' = Counted(number_items + 1)
          /\ UNCHANGED <<result, wild>>
       \/ tail # Null /\ Dangling(tail) /\ Wild
       \/ NoMemory

\* the loop follows next from the head
Clear ==
    /\ Call("other")
    /\ LET walk == Walk(head, next) IN
       \/ /\ Safe(walk)
          /\ Free(Met(walk))
          /\ next' = Links(next, Met(walk)) /\ prev' = Links(prev, Met(walk))
          /\ head' = Null /\ tail' = Null /\ number_items' = 0
          /\ UNCHANGED <<result, wild>>
       \/ ~Safe(walk) /\ Wild

BelowSame(n) == n
Below(n) == prev[n]

PopUnchecked ==
    /\ Call("pop")
    /\ head = Null
    /\ result' = <<"item", Null>>
    /\ number_items' = number_items - 1
    /\ UNCHANGED <<heap_vars, head, tail, wild>>

Pop ==
    /\ Call("pop")
    /\ \/ /\ head = Null
          /\ result' = <<"item", Null>>
          /\ UNCHANGED <<heap_vars, head, tail, number_items, wild>>
       \/ /\ head # Null /\ ~Dangling(head)
          /\ head' = Below(head)
          /\ number_items' = Counted(number_items - 1)
          /\ result' = <<"item", value[head]>>
          /\ Free({head})
          /\ next' = Links(next, {head}) /\ prev' = Links(prev, {head})
          /\ UNCHANGED <<tail, wild>>
       \/ head # Null /\ Dangling(head) /\ Wild

PopLeft ==
    /\ Call("other")
    /\ \/ /\ tail = Null
          /\ result' = <<"item", Null>>
          /\ UNCHANGED <<heap_vars, head, tail, number_items, wild>>
       \/ /\ tail # Null /\ ~Dangling(tail)
          /\ next[tail] = Null \/ ~Dangling(next[tail])
          /\ tail' = next[tail]
          /\ prev' = Links(prev, {tail, next[tail]})
          /\ next' = Links(next, {tail})
          /\ number_items' = Counted(number_items - 1)
          /\ result' = <<"item", value[tail]>>
          /\ Free({tail})
          /\ UNCHANGED <<head, wild>>
       \/ /\ tail # Null
          /\ Dangling(tail) \/ (next[tail] # Null /\ Dangling(next[tail]))
          /\ Wild

PeekAt(group, end) ==
    /\ Call(group)
    /\ \/ /\ end = Null \/ ~Dangling(end)
          /\ result' = <<"item", IF end = Null THEN Null ELSE value[end]>>
          /\ UNCHANGED <<heap_vars, head, tail, number_items, wild>>
       \/ end # Null /\ Dangling(end) /\ Wild

Peek     == PeekAt("grow", head)
PeekLeft == PeekAt("tail", tail)

Count ==
    /\ Call("grow")
    /\ result' = <<"count", number_items>>
    /\ UNCHANGED <<heap_vars, head, tail, number_items, wild>>

\* the nodes a search from the tail visits before it finds v, and the one it
\* finds, if any
Hits(walk, v) == {n \in DOMAIN walk : value[walk[n]] = v}
FirstHit(walk, v) == CHOOSE n \in Hits(walk, v) : \A k \in Hits(walk, v) : n <= k
Visited(walk, v) ==
    IF Hits(walk, v) = {} THEN walk ELSE SubSeq(walk, 1, FirstHit(walk, v))

Contains(v) ==
    /\ Call("tail")
    /\ LET walk == Walk(tail, next) IN
       \/ /\ Safe(Visited(walk, v))
          /\ result' = <<"found", Hits(walk, v) # {}>>
          /\ UNCHANGED <<heap_vars, head, tail, number_items, wild>>
       \/ ~Safe(Visited(walk, v)) /\ Wild

\* the neighbours are linked to each other; head and tail stay as they are
Remove(v) ==
    /\ Call("other")
    /\ LET walk == Walk(tail, next)
           hit  == walk[FirstHit(walk, v)]
       IN
       \/ /\ Safe(Visited(walk, v))
          /\ Hits(walk, v) = {}
          /\ result' = <<"item", Null>>
          /\ UNCHANGED <<heap_vars, head, tail, number_items, wild>>
       \/ /\ Safe(Visited(walk, v))
          /\ Hits(walk, v) # {}
          /\ {prev[hit], next[hit]} \subseteq live \cup {Null}
          /\ next' = [n \in Node |-> IF n = hit THEN Null
                                     ELSE IF n = prev[hit] THEN next[hit] ELSE next[n]]
          /\ prev' = [n \in Node |-> IF n = hit THEN Null
                                     ELSE IF n = next[hit] THEN prev[hit] ELSE prev[n]]
          /\ Free({hit})
          /\ number_items' = Counted(number_items - 1)
          /\ result' = <<"item", v>>
          /\ UNCHANGED <<head, tail, wild>>
       \/ /\ \/ ~Safe(Visited(walk, v))
             \/ /\ Hits(walk, v) # {}
                /\ ~({prev[hit], next[hit]} \subseteq live \cup {Null})
          /\ Wild

\* one turn of the loop of deque_rotateright: the last element, where prev is
\* NULL, has no check
RotateRight ==
    /\ Call("other")
    /\ \/ /\ head = Null \/ tail = Null
          /\ UNCHANGED <<heap_vars, head, tail, number_items, result, wild>>
       \/ /\ head # Null /\ tail # Null
          /\ {head, tail} \subseteq live
          /\ prev[head] \in live
          /\ head' = prev[head]
          /\ tail' = head
          /\ next' = [next EXCEPT ![prev[head]] = Null, ![head] = tail]
          /\ prev' = [prev EXCEPT ![head] = Null, ![tail] = head]
          /\ UNCHANGED <<live, value, number_items, result, wild>>
       \/ /\ head # Null /\ tail # Null
          /\ ~({head, tail} \subseteq live /\ prev[head] \in live)
          /\ Wild

RotateLeft ==
    /\ Call("other")
    /\ \/ /\ head = Null \/ tail = Null
          /\ UNCHANGED <<heap_vars, head, tail, number_items, result, wild>>
       \/ /\ head # Null /\ tail # Null
          /\ {head, tail} \subseteq live
          /\ next[tail] \in live
          /\ tail' = next[tail]
          /\ head' = tail
          /\ prev' = [prev EXCEPT ![next[tail]] = Null, ![tail] = head]
          /\ next' = [next EXCEPT ![tail] = Null, ![head] = tail]
          /\ UNCHANGED <<live, value, number_items, result, wild>>
       \/ /\ head # Null /\ tail # Null
          /\ ~({head, tail} \subseteq live /\ next[tail] \in live)
          /\ Wild

ReverseLinksOnly ==
    /\ Call("tail")
    /\ LET walk == Walk(tail, next) IN
       /\ Safe(walk)
       /\ next' = [n \in Node |-> IF n \in Met(walk) THEN prev[n] ELSE next[n]]
       /\ prev' = [n \in Node |-> IF n \in Met(walk) THEN next[n] ELSE prev[n]]
    /\ UNCHANGED <<live, value, head, tail, number_items, result, wild>>

Reverse ==
    /\ Call("tail")
    /\ LET walk == Walk(tail, next) IN
       \/ /\ Safe(walk)
          /\ next' = [n \in Node |-> IF n \in Met(walk) THEN prev[n] ELSE next[n]]
          /\ prev' = [n \in Node |-> IF n \in Met(walk) THEN next[n] ELSE prev[n]]
          /\ head' = tail /\ tail' = head
          /\ UNCHANGED <<live, value, number_items, result, wild>>
       \/ ~Safe(walk) /\ Wild

\* result is what is in the copy, which the caller then frees: deque_copy
\* follows next from the head
Copy ==
    /\ Call("other")
    /\ LET walk == Walk(head, next) IN
       \/ /\ Safe(walk)
          /\ result' = <<"copy", [n \in DOMAIN walk |-> value[walk[n]]]>>
          /\ UNCHANGED <<heap_vars, head, tail, number_items, wild>>
       \/ ~Safe(walk) /\ Wild

Next ==
    \/ \E v \in Value : AppendRight(v) \/ AppendLeft(v) \/ Contains(v) \/ Remove(v)
    \/ Pop \/ PopLeft \/ Peek \/ PeekLeft \/ Count \/ Clear \/ Copy
    \/ RotateRight \/ RotateLeft \/ Reverse

Spec == Init /\ [][Next]_vars

-----------------------------------------------------------------------------
\* Every variable keeps its type.
TypeOK ==
    /\ live \subseteq Node
    /\ value \in [Node -> Value \cup {Null}]
    /\ next \in [Node -> Pointer] /\ prev \in [Node -> Pointer]
    /\ head \in Pointer /\ tail \in Pointer
    /\ number_items \in 0 .. 2^CountBits - 1
    /\ wild \in BOOLEAN

\* A client that only ever pops at the head, as the scanner does, or only
\* grows the list and reads it from the tail.
Tame == use # "other"

\* A tame client never makes the code dereference NULL or a node that was
\* freed, although pop leaves a dangling tail and a dangling next behind: the
\* walk from the head along prev is the whole list, with as many nodes as
\* number_items says, and every allocated node is on it.
MemorySafe ==
    LET walk == Walk(head, prev) IN
    Tame => ~wild /\ Safe(walk) /\ Met(walk) = live /\ Len(walk) = number_items

\* deque_count never counts an item without a node, whatever was called: the
\* loop "while (deque_count(...))" does not ask for more than there is.
CountBacked == ~wild => number_items <= Cardinality(live)

\* the items from the left end to the right end, as the head sees them
Items ==
    LET walk == Walk(head, prev)
    IN [n \in DOMAIN walk |-> value[walk[Len(walk) + 1 - n]]]

Ends == INSTANCE DequeSpec WITH items <- Items

\* The calls of a tame client behave as the comments of deque.c describe them.
ImplementsDeque == Ends!Init /\ [][Tame' => [Ends!Next]_(Ends!vars)]_vars

=============================================================================
