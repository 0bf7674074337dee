------------------------------- MODULE HashTable -------------------------------
(***************************************************************************)
(* ThreadSafeHashTable of src/thread-safe-hash-table.cpp: a list of pairs  *)
(* and a shared mutex per bucket.  An operation looks for the entry of its *)
(* key and then reads, changes, erases or adds it, through the iterator    *)
(* that it found.  (get_map() does not compile once it is used.)           *)
(***************************************************************************)
EXTENDS Integers, Sequences, FiniteSets, SequencesExt

CONSTANTS
    Client,
    TableCalls,      \* functions from Client to sequences of calls
    num_buckets,
    Default       \* the default_value of the calls of value_for()

Bucket == 0 .. num_buckets - 1

(* Keys are numbers and std::hash is the identity on them.                  *)
hash(key) == key % num_buckets

VARIABLES
    todo, pc,
    data,               \* per bucket, a sequence of entries
    readers, writers,   \* per bucket, the clients that hold its mutex
    entry,              \* the position of the iterator, 0 for end()
    returned,           \* what each value_for() returned
    mapping             \* history: what the calls that ended amount to

vars == <<todo, pc, data, readers, writers, entry, returned, mapping>>

Set(k, v) == [call |-> "add_or_update_mapping", key |-> k, value |-> v]
Erase(k) == [call |-> "remove_mapping", key |-> k]
Get(k) == [call |-> "value_for", key |-> k]
Key == UNION {{s[c][i].key : i \in DOMAIN s[c]} : c \in Client, s \in TableCalls}

Init ==
    /\ todo \in TableCalls
    /\ pc = [c \in Client |-> "lock"]
    /\ data = [b \in Bucket |-> <<>>]
    /\ readers = [b \in Bucket |-> {}]
    /\ writers = [b \in Bucket |-> {}]
    /\ entry = [c \in Client |-> 0]
    /\ returned = [c \in Client |-> <<>>]
    /\ mapping = [k \in Key |-> Default]

Goto(c, from, to) == pc[c] = from /\ todo[c] # <<>> /\ pc' = [pc EXCEPT ![c] = to]
Calls(c) == Head(todo[c])
BucketOf(c) == hash(Calls(c).key)

-----------------------------------------------------------------------------
LockShared(c) ==
    /\ Goto(c, "lock", "find")
    /\ Calls(c).call = "value_for"
    /\ writers[BucketOf(c)] = {}
    /\ readers' = [readers EXCEPT ![BucketOf(c)] = @ \cup {c}]
    /\ UNCHANGED <<todo, data, writers, entry, returned, mapping>>

(* Mutant: the calls that change a bucket share its mutex.                  *)
LockUniqueNot(c) ==
    /\ Goto(c, "lock", "find")
    /\ Calls(c).call # "value_for"
    /\ writers' = [writers EXCEPT ![BucketOf(c)] = @ \cup {c}]
    /\ UNCHANGED <<todo, data, readers, entry, returned, mapping>>

LockUnique(c) ==
    /\ Goto(c, "lock", "find")
    /\ Calls(c).call # "value_for"
    /\ writers[BucketOf(c)] = {} /\ readers[BucketOf(c)] = {}
    /\ writers' = [writers EXCEPT ![BucketOf(c)] = {c}]
    /\ UNCHANGED <<todo, data, readers, entry, returned, mapping>>

Positions(c) == {i \in DOMAIN data[BucketOf(c)] : data[BucketOf(c)][i].key = Calls(c).key}

Find(c) ==
    /\ Goto(c, "find", "use")
    /\ entry' = [entry EXCEPT ![c] =
                    IF Positions(c) = {} THEN 0 ELSE CHOOSE i \in Positions(c) :
                                                         \A j \in Positions(c) : i <= j]
    /\ UNCHANGED <<todo, data, readers, writers, returned, mapping>>

(* The call returns and its lock is released.                               *)
Returns(c) ==
    /\ Goto(c, "use", "lock")
    /\ readers' = [readers EXCEPT ![BucketOf(c)] = @ \ {c}]
    /\ writers' = [writers EXCEPT ![BucketOf(c)] = @ \ {c}]
    /\ todo' = [todo EXCEPT ![c] = Tail(@)]
    /\ UNCHANGED entry

(* Lines 57, 62-66 and 71-73.                                               *)
value_for(c) ==
    /\ Returns(c)
    /\ Calls(c).call = "value_for"
    /\ returned' = [returned EXCEPT ![c] =
           Append(@, IF entry[c] = 0 THEN Default ELSE data[BucketOf(c)][entry[c]].value)]
    /\ UNCHANGED <<data, mapping>>

add_or_update_mapping(c) ==
    /\ Returns(c)
    /\ Calls(c).call = "add_or_update_mapping"
    /\ LET pair == [key |-> Calls(c).key, value |-> Calls(c).value]
       IN  data' = [data EXCEPT ![BucketOf(c)] =
                       IF entry[c] = 0 THEN Append(@, pair) ELSE [@ EXCEPT ![entry[c]] = pair]]
    /\ mapping' = [mapping EXCEPT ![Calls(c).key] = Calls(c).value]
    /\ UNCHANGED returned

remove_mapping(c) ==
    /\ Returns(c)
    /\ Calls(c).call = "remove_mapping"
    /\ data' = [data EXCEPT ![BucketOf(c)] = IF entry[c] = 0 THEN @ ELSE RemoveAt(@, entry[c])]
    /\ mapping' = [mapping EXCEPT ![Calls(c).key] = Default]
    /\ UNCHANGED returned

-----------------------------------------------------------------------------
Step(c) ==
    \/ LockShared(c) \/ LockUnique(c) \/ Find(c)
    \/ value_for(c) \/ add_or_update_mapping(c) \/ remove_mapping(c)

Ended == \A c \in Client : todo[c] = <<>>
Next == (\E c \in Client : Step(c)) \/ (Ended /\ UNCHANGED vars)
Spec == Init /\ [][Next]_vars /\ \A c \in Client : WF_vars(Step(c))

-----------------------------------------------------------------------------
(* Properties.                                                              *)

(* What a call found is still so when it uses it: its iterator stands on    *)
(* the entry of its key, or there is none.                                  *)
IteratorValid ==
    \A c \in Client : pc[c] = "use" => Positions(c) = {entry[c]} \ {0}

(* The table is a map: it has one entry per key, with the value that the    *)
(* calls that have returned amount to, and none for a key that was removed. *)
IsMap ==
    \A k \in Key :
        {data[hash(k)][i].value : i \in {j \in DOMAIN data[hash(k)] : data[hash(k)][j].key = k}}
            = {mapping[k]} \ {Default}
    /\ \A b \in Bucket : IsInjective([i \in DOMAIN data[b] |-> data[b][i].key])
=============================================================================
