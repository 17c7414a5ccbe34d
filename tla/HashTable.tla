----------------------------- MODULE HashTable -----------------------------
(***************************************************************************)
(* hashtable.c: a chained hash table whose client calls ht_setup first and *)
(* nothing but ht_setup after ht_destroy.  The hash of a key is the key.   *)
(* malloc may fail in every call.  status tells when a call ended the      *)
(* process: an assertion, or an access through a NULL array.               *)
(***************************************************************************)
EXTENDS Integers, FiniteSets, SequencesExt

CONSTANTS
    Key, Value,
    MinCapacity,    \* HT_MINIMUM_CAPACITY, 8 in the code
    LoadFactor,     \* HT_LOAD_FACTOR, 5 in the code
    Capacities,     \* those the client passes to ht_setup and ht_reserve
    MaxSize         \* bound: no insertion into a table of this size

ASSUME KeyAssumption == Key \subseteq Nat
ASSUME MinAssumption == MinCapacity \in Nat \ {0} /\ LoadFactor \in Nat \ {0}
ASSUME CapacityAssumption == Capacities \subseteq Nat

VARIABLES
    state,      \* of table->nodes: "none" outside setup and destroy, "array" or "null"
    nodes,      \* the array: a sequence of chains, chains of <<key, value>>
    size, capacity, threshold,
    result,     \* what the last call returned
    status,     \* "running", "asserted" or "wild"
    failed      \* history: has malloc failed?

fields == <<state, nodes, size, capacity, threshold>>
vars == <<fields, result, status, failed>>

GrowthFactor == 2
Larger(a, b) == IF a > b THEN a ELSE b

Init ==
    /\ state = "none" /\ nodes = <<>>
    /\ size = 0 /\ capacity = 0 /\ threshold = 0
    /\ result = <<"setup">>
    /\ status = "running"
    /\ failed = FALSE

Call(states) == status = "running" /\ state \in states
Ends(how) == status' = how /\ UNCHANGED <<fields, result, failed>>
Returns(r) == result' = r /\ UNCHANGED <<status, failed>>

\* malloc gives NULL: the call returns HT_ERROR, and the array is lost
Fails(r) == failed' = TRUE /\ result' = r /\ UNCHANGED status
NoArray ==
    /\ state' = "null" /\ nodes' = <<>>
    /\ UNCHANGED <<capacity, threshold>>

Index(k, cap) == (k % cap) + 1
Chain(k) == nodes[Index(k, capacity)]
HasFirst(chain, k) == chain # <<>> /\ chain[1][1] = k
Has(chain, k) == \E n \in DOMAIN chain : chain[n][1] = k
Where(chain, k) ==
    CHOOSE n \in DOMAIN chain :
        chain[n][1] = k /\ \A m \in 1 .. n - 1 : chain[m][1] # k
Unlinked(chain, k) == RemoveAt(chain, Where(chain, k))

UnsetArray(cap) == [n \in 1 .. cap |-> <<<<>>>>]
EmptyArray(cap) == [n \in 1 .. cap |-> <<>>]

Allocated(array, cap) ==
    /\ nodes' = array
    /\ capacity' = cap
    /\ threshold' = cap * LoadFactor

RehashedInPlace(cap) ==
    [n \in 1 .. cap |-> IF n <= capacity THEN nodes[n] ELSE <<>>]

\* a node is put in front of the chain its hash asks for
PushedFront(array, entry) ==
    [array EXCEPT ![Index(entry[1], Len(array))] = <<entry>> \o @]

\* _ht_rehash takes the old nodes chain by chain, node by node
Moved(array, chain) ==
    LET moved[m \in 0 .. Len(chain)] ==
            IF m = 0 THEN array ELSE PushedFront(moved[m - 1], chain[m])
    IN moved[Len(chain)]

Rehashed(cap) ==
    LET moved[n \in 0 .. Len(nodes)] ==
            IF n = 0 THEN EmptyArray(cap) ELSE Moved(moved[n - 1], nodes[n])
    IN moved[Len(nodes)]

ResizedNever(wanted) == capacity

\* the capacity _ht_resize goes to, the old one when it has nothing to do
Resized(wanted) ==
    IF wanted >= MinCapacity THEN wanted
    ELSE IF capacity > MinCapacity THEN MinCapacity ELSE capacity

Setup(cap) ==
    /\ Call({"none"})
    /\ \/ /\ Allocated(EmptyArray(Larger(cap, MinCapacity)), Larger(cap, MinCapacity))
          /\ state' = "array"
          /\ size' = 0
          /\ UNCHANGED <<result, status, failed>>
       \/ NoArray /\ Fails(<<"error">>) /\ UNCHANGED size

\* the pointer to the freed array stays; the client does not use it
Destroy ==
    \/ /\ Call({"array"})
       /\ state' = "none" /\ nodes' = <<>>
       /\ UNCHANGED <<size, capacity, threshold, result, status, failed>>
    \/ Call({"null"}) /\ Ends("asserted")

(***************************************************************************)
(* ht_insert: a full table grows first, even when the key is there; then   *)
(* the value is replaced or a node put in front of the chain.  Where       *)
(* malloc gives NULL for the node, _ht_push_front stores it.               *)
(***************************************************************************)
Insert(k, v) ==
    /\ Call({"array"})
    /\ size <= capacity
    /\ size < MaxSize
    /\ LET cap   == IF size = capacity THEN Resized(size * GrowthFactor) ELSE capacity
           moved == IF cap # capacity THEN Rehashed(cap) ELSE nodes
           at    == Index(k, cap)
           chain == moved[at]
       IN
       \/ /\ Has(chain, k)
          /\ Allocated([moved EXCEPT ![at][Where(chain, k)][2] = v], cap)
          /\ Returns(<<"updated">>)
          /\ UNCHANGED size
       \/ /\ ~Has(chain, k)
          /\ Allocated(PushedFront(moved, <<k, v>>), cap)
          /\ size' = size + 1
          /\ Returns(<<"inserted">>)
       \/ /\ ~Has(chain, k)
          /\ Allocated([moved EXCEPT ![at] = <<>>], cap)
          /\ Fails(<<"error">>)
          /\ UNCHANGED size
    /\ UNCHANGED state

\* ht_insert does not look at the result of growing
InsertGrowFails ==
    /\ Call({"array"})
    /\ size = capacity
    /\ Resized(size * GrowthFactor) # capacity
    /\ status' = "wild" /\ failed' = TRUE
    /\ UNCHANGED <<fields, result>>

InsertAsserts ==
    /\ Call({"array", "null"})
    /\ state = "array" => size > capacity
    /\ Ends("asserted")

HasKey(k) ==
    \/ /\ Call({"array"})
       /\ Returns(<<"contains", Has(Chain(k), k)>>)
       /\ UNCHANGED fields
    \/ Call({"null"}) /\ Ends("asserted")

\* ht_lookup and ht_const_lookup: no assertion on the array
Lookup(k) ==
    \/ /\ Call({"array"})
       /\ Returns(IF Has(Chain(k), k) THEN <<"value", Chain(k)[Where(Chain(k), k)][2]>>
                  ELSE <<"no value">>)
       /\ UNCHANGED fields
    \/ Call({"null"}) /\ Ends("wild")

(***************************************************************************)
(* ht_erase: with HT_SHRINK_THRESHOLD the integer division 1 / 4, a table  *)
(* shrinks only when its last entry goes.                                  *)
(***************************************************************************)
Erase(k) ==
    \/ /\ Call({"array"})
       /\ ~Has(Chain(k), k)
       /\ Returns(<<"not found">>)
       /\ UNCHANGED fields
    \/ /\ Call({"array"})
       /\ Has(Chain(k), k)
       /\ size - 1 <= capacity
       /\ size' = size - 1
       /\ LET left == [nodes EXCEPT ![Index(k, capacity)] = Unlinked(Chain(k), k)]
              cap  == IF size = 1 THEN Resized(0) ELSE capacity
          IN
          \/ /\ cap = capacity
             /\ nodes' = left
             /\ Returns(<<"erased">>)
             /\ UNCHANGED <<state, capacity, threshold>>
          \/ /\ cap # capacity
             /\ Allocated(EmptyArray(cap), cap)
             /\ Returns(<<"erased">>)
             /\ UNCHANGED state
          \/ cap # capacity /\ NoArray /\ Fails(<<"error">>)

\* the assertion of _ht_should_shrink; without an array there is none
EraseFails(k) ==
    /\ Call({"array", "null"})
    /\ state = "array" => Has(Chain(k), k) /\ size - 1 > capacity
    /\ Ends(IF state = "null" THEN "wild" ELSE "asserted")

IsEmpty ==
    /\ Call({"array", "null"})
    /\ Returns(<<"is empty", size = 0>>)
    /\ UNCHANGED fields

\* ht_destroy, then _ht_allocate, whose result is ignored
Clear ==
    \/ /\ Call({"array"})
       /\ size' = 0
       /\ \/ /\ Allocated(EmptyArray(MinCapacity), MinCapacity)
             /\ UNCHANGED <<state, result, status, failed>>
          \/ NoArray /\ Fails(result)
    \/ Call({"null"}) /\ Ends("asserted")

\* minimum counts entries; the array is sized by the load factor
Reserve(minimum) ==
    \/ /\ Call({"array"})
       /\ minimum <= threshold
       /\ UNCHANGED <<fields, result, status, failed>>
    \/ /\ Call({"array"})
       /\ minimum > threshold
       /\ \/ /\ Allocated(Rehashed(Resized(minimum \div LoadFactor)),
                          Resized(minimum \div LoadFactor))
             /\ UNCHANGED <<state, result, status, failed>>
          \/ NoArray /\ Fails(<<"error">>)
       /\ UNCHANGED size
    \/ Call({"null"}) /\ Ends("asserted")

Next ==
    \/ \E cap \in Capacities : Setup(cap) \/ Reserve(cap)
    \/ \E k \in Key, v \in Value : Insert(k, v)
    \/ \E k \in Key : HasKey(k) \/ Lookup(k) \/ Erase(k) \/ EraseFails(k)
    \/ InsertGrowFails \/ InsertAsserts \/ Destroy \/ IsEmpty \/ Clear

Spec == Init /\ [][Next]_vars

-----------------------------------------------------------------------------
\* the entries that an array holds
HeldIn(array) == UNION {ToSet(array[n]) : n \in DOMAIN array}
Held == HeldIn(nodes)

\* each entry is in the chain of its hash
Placed(array) ==
    \A n \in DOMAIN array : \A m \in DOMAIN array[n] :
        Index(array[n][m][1], Len(array)) = n

\* no chain has a key twice
KeysOnce(array) ==
    \A n \in DOMAIN array : \A a, b \in DOMAIN array[n] :
        array[n][a][1] = array[n][b][1] => a = b

\* The fields keep their types, and only an array has chains.
TypeOK ==
    /\ state \in {"none", "array", "null"}
    /\ nodes \in Seq(Seq(Key \X Value))
    /\ state # "array" => nodes = <<>>
    /\ size \in Nat /\ capacity \in Nat /\ threshold \in Nat
    /\ status \in {"running", "asserted", "wild"}
    /\ failed \in BOOLEAN

\* Through growth, rehashing, failed calls and the shrink of an emptied table,
\* each entry is in the chain of its hash and a key is in the table once; until
\* malloc fails size counts the entries, and afterwards it is never below their
\* number: ht_erase cannot take the unsigned size below zero.
WellFormed ==
    state = "array" =>
        /\ Len(nodes) = capacity
        /\ Placed(nodes)
        /\ KeysOnce(nodes)
        /\ Cardinality(Held) <= size
        /\ ~failed => size = Cardinality(Held)

\* No call ends the process unless malloc has failed: in particular the
\* assertions size <= capacity before each insertion and after each erasure.
NeverEnds == ~failed => status = "running"

\* the values by their keys
MapOf(held) ==
    [k \in {entry[1] : entry \in held} |-> (CHOOSE entry \in held : entry[1] = k)[2]]

Dictionary == INSTANCE MapSpec WITH map <- MapOf(Held)

\* Until malloc fails the table is a map.
ImplementsMap ==
    Dictionary!Init /\ [][~failed' => [Dictionary!Next]_(Dictionary!vars)]_vars

=============================================================================
