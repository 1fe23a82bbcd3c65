----------------------------- MODULE MemoryRefDB ------------------------------
(***************************************************************************)
(* The reference database in memory: a hash table whose buckets are lists  *)
(* of allocated entries, behind the callbacks of git_refdb_backend.  One   *)
(* caller at a time; one iterator may be open while the table changes.     *)
(* "last" is the last call and its answer.                                 *)
(*                                                                         *)
(* A list is the sequence of the addresses of its entries, so unlinking    *)
(* through prev->next is taking an element out.  "kept" says whether the   *)
(* last call was answered as git_refdb_backend promises; the history       *)
(* variables are shadowed, the names that a forced rename put a second     *)
(* entry of in front of the first, and stay and seen, the entries that an  *)
(* iteration must and did visit.                                           *)
(***************************************************************************)
EXTENDS Naturals, Sequences, SequencesExt

CONSTANTS
    Names,     \* reference names
    Oids,      \* object ids
    Targets,   \* the names a symbolic reference points to
    Address,   \* what calloc may return
    Size,      \* HASH_TABLE_SIZE
    hash,      \* the bucket of a name; buckets are counted from 1
    Nil        \* a null pointer, the zero id, an entry that is not allocated

Buckets == 1..Size

MemoryRef ==
    [name : Names, type : {"direct", "symbolic"}, target : Oids \cup {Nil},
     symbolic_target : Targets \cup {Nil}]
\* What git_reference__alloc and git_reference__alloc_symbolic make of an entry.
Reference == [type : {"direct"}, to : Oids] \cup [type : {"symbolic"}, to : Targets]

ASSUME TableAssumption ==
    /\ Size \in Nat \ {0} /\ hash \in [Names -> Buckets]
    /\ Targets \subseteq Names
    /\ Nil \notin Names \cup Oids \cup Address \cup MemoryRef \cup Reference

VARIABLES
    entry,     \* the memory_ref at an address
    table,     \* refs: the list of each bucket
    alive,     \* between create_memory_refdb and memory_ref_free
    it, seen, stay,
    shadowed,
    last, kept

iterVars == <<it, seen, stay>>
vars == <<entry, table, alive, iterVars, shadowed, last, kept>>

Callbacks == {"create", "exists", "lookup", "write", "rename", "delete", "free", "log",
              "iterator", "next", "next_name", "end"}
\* A callback with its arguments: a value or a name, force, and the old value.
Calls == [op : Callbacks, arg : Reference \cup Names \cup {Nil}, force : BOOLEAN,
          old : Reference \cup {Nil}]
With(o, x, f, v) == [op |-> o, arg |-> x, force |-> f, old |-> v]
Op(o) == With(o, Nil, FALSE, Nil)
Codes == {"GIT_OK", "found", "missing", "GIT_ENOTFOUND", "GIT_EEXISTS", "GIT_EMODIFIED",
          "GIT_ENOMEM", "GIT_EINVALIDSPEC", "GIT_ERROR"}
Iterator == [state : {"none", "open", "over", "dangling"}, bucket : 0..Size,
             cur : Address \cup {Nil}]
Stands(s, b, a) == [state |-> s, bucket |-> b, cur |-> a]
NoIterator == Stands("none", 0, Nil)
EmptyTable == [b \in Buckets |-> <<>>]

Init ==
    /\ entry = [a \in Address |-> Nil]
    /\ table = EmptyTable
    /\ alive = TRUE
    /\ it = NoIterator /\ seen = {} /\ stay = {}
    /\ shadowed = {}
    /\ last = [call |-> Op("create"), name |-> Nil, code |-> "GIT_OK", out |-> Nil]
    /\ kept = TRUE

----------------------------------------------------------------------------
Allocated == {a \in Address : entry[a] # Nil}
Answers(call, n, c, v) == last' = [call |-> call, name |-> n, code |-> c, out |-> v]
Returns(call, n, c) == Answers(call, n, c, Nil)
Keeps == kept' = TRUE

\* The walk down the list of a name's bucket, up to the first entry of that name.
At(n) == {i \in DOMAIN table[hash[n]] : entry[table[hash[n]][i]].name = n}
First(n) == {i \in At(n) : \A j \in At(n) : i <= j}
There(n) == At(n) # {}

Value(e) ==
    IF e.type = "direct" THEN [type |-> "direct", to |-> e.target]
                         ELSE [type |-> "symbolic", to |-> e.symbolic_target]

\* The map of the reference database: what the walk finds of each name.
Holder(n) == table[hash[n]][CHOOSE i \in First(n) : TRUE]
Refs == [n \in Names |-> IF There(n) THEN Value(entry[Holder(n)]) ELSE Nil]

memory_ref_exists(n) ==
    /\ Returns(Op("exists"), n, IF There(n) THEN "found" ELSE "missing")
    /\ Keeps
    /\ UNCHANGED <<entry, table, alive, iterVars, shadowed>>

memory_ref_lookup(n) ==
    /\ \/ \E i \in First(n) :
            Answers(Op("lookup"), n, "GIT_OK", Value(entry[table[hash[n]][i]]))
       \/ There(n) /\ Returns(Op("lookup"), n, "GIT_ENOMEM")
       \/ ~There(n) /\ Returns(Op("lookup"), n, "GIT_ENOTFOUND")
    /\ Keeps
    /\ UNCHANGED <<entry, table, alive, iterVars, shadowed>>

\* The lists t with a put in front of list b, and with place i of list b taken out.
Linked(t, b, a) == [t EXCEPT ![b] = Cons(a, @)]
Unlinked(t, b, i) == [t EXCEPT ![b] = RemoveAt(@, i)]

\* Mutant: the object id is not copied into a new entry.
NewEntryBlank(n, v) ==
    [name |-> n, type |-> v.type, target |-> Nil,
     symbolic_target |-> IF v.type = "symbolic" THEN v.to ELSE Nil]

\* A new entry of calloc goes to the front of its bucket.
NewEntry(n, v) ==
    [name |-> n, type |-> v.type,
     target |-> IF v.type = "direct" THEN v.to ELSE Nil,
     symbolic_target |-> IF v.type = "symbolic" THEN v.to ELSE Nil]
\* An entry that is there: a direct value leaves the type of the entry as it is.  (That strdup
\* may fail for a symbolic one, which then has no target, is left out.)
Updated(e, v) ==
    [name |-> e.name,
     type |-> IF v.type = "direct" THEN e.type ELSE "symbolic",
     target |-> IF v.type = "direct" THEN v.to ELSE e.target,
     symbolic_target |-> IF v.type = "direct" THEN e.symbolic_target ELSE v.to]

\* The old value, an id or a target, is not looked at.  A caller that gave the one the
\* reference is at was to be obeyed.
WriteRefused(n, v, force, old) ==
    /\ There(n) /\ ~force
    /\ Returns(With("write", v, force, old), n, "GIT_EEXISTS")
    /\ kept' = (old # Refs[n])
    /\ UNCHANGED <<entry, table>>

\* A direct value was to replace a symbolic one.
WriteOver(n, v, force, old) ==
    /\ force
    /\ \E i \in First(n) :
          LET a == table[hash[n]][i] IN
          /\ entry' = [entry EXCEPT ![a] = Updated(@, v)]
          /\ kept' = (v.type = "symbolic" \/ entry[a].type = "direct")
    /\ Returns(With("write", v, force, old), n, "GIT_OK")
    /\ UNCHANGED table

\* Mutant: a write puts its entry in front without looking for the name.
WriteNewUnlooked(n, v, force, old) ==
    /\ \E a \in Address \ Allocated :
          /\ entry' = [entry EXCEPT ![a] = NewEntry(n, v)]
          /\ table' = Linked(table, hash[n], a)
    /\ Returns(With("write", v, force, old), n, "GIT_OK")
    /\ Keeps

\* A caller that gave an old value was to be refused, as there is none.
WriteNew(n, v, force, old) ==
    /\ ~There(n)
    /\ \/ /\ \E a \in Address \ Allocated :
                /\ entry' = [entry EXCEPT ![a] = NewEntry(n, v)]
                /\ table' = Linked(table, hash[n], a)
          /\ Returns(With("write", v, force, old), n, "GIT_OK")
          /\ kept' = (force \/ old = Nil)
       \/ /\ Returns(With("write", v, force, old), n, "GIT_ENOMEM")
          /\ Keeps
          /\ UNCHANGED <<entry, table>>

memory_ref_write(n, v, force, old) ==
    /\ \/ WriteRefused(n, v, force, old)
       \/ WriteOver(n, v, force, old)
       \/ WriteNew(n, v, force, old)
    /\ UNCHANGED <<alive, iterVars, shadowed>>

\* A null target, or a reference of another type.
WriteInvalid(n) ==
    /\ Returns(Op("write"), n, "GIT_EINVALIDSPEC")
    /\ Keeps
    /\ UNCHANGED <<entry, table, alive, iterVars, shadowed>>

----------------------------------------------------------------------------
Renamed(e, new) ==
    [name |-> new, type |-> e.type, target |-> e.target, symbolic_target |-> e.symbolic_target]

\* Mutant: the entry goes back into the bucket of its old name.
MovedBack(old, new, i) ==
    LET a == table[hash[old]][i] IN
    /\ entry' = [entry EXCEPT ![a] = Renamed(@, new)]
    /\ table' = Linked(Unlinked(table, hash[old], i), hash[old], a)
    /\ shadowed' = IF There(new) /\ new # old THEN shadowed \cup {new} ELSE shadowed
    /\ stay' = IF a = it.cur THEN {} ELSE stay \ {a}
    /\ UNCHANGED it

\* The entry goes to the front of the bucket of its new name, whatever else has that name.
Moved(old, new, i) ==
    LET a == table[hash[old]][i] IN
    /\ entry' = [entry EXCEPT ![a] = Renamed(@, new)]
    /\ table' = Linked(Unlinked(table, hash[old], i), hash[new], a)
    /\ shadowed' = IF There(new) /\ new # old THEN shadowed \cup {new} ELSE shadowed
    /\ stay' = IF a = it.cur THEN {} ELSE stay \ {a}
    /\ UNCHANGED it

\* Unlinks the entry and frees it.
Freed(n, i) ==
    LET a == table[hash[n]][i] IN
    /\ entry' = [entry EXCEPT ![a] = Nil]
    /\ table' = Unlinked(table, hash[n], i)
    /\ stay' = stay \ {a}
    /\ it' = IF a = it.cur THEN Stands("dangling", it.bucket, a) ELSE it

\* git_reference_create has no repository to work with: the entry is moved and an error is
\* returned.  When strdup fails the entry is freed after it was unlinked.  An error was to mean
\* that nothing is renamed.
memory_ref_rename(old, new, force) ==
    /\ \/ /\ force \/ ~There(new)
          /\ \E i \in First(old) :
                \/ /\ Moved(old, new, i)
                   /\ Returns(With("rename", new, force, Nil), old, "GIT_ERROR")
                \/ /\ Freed(old, i)
                   /\ Returns(With("rename", new, force, Nil), old, "GIT_ENOMEM")
                   /\ UNCHANGED shadowed
          /\ kept' = FALSE
          /\ UNCHANGED seen
       \/ /\ ~force /\ There(new)
          /\ Returns(With("rename", new, force, Nil), old, "GIT_EEXISTS")
          /\ Keeps
          /\ UNCHANGED <<entry, table, iterVars, shadowed>>
       \/ /\ force \/ ~There(new)
          /\ ~There(old)
          /\ Returns(With("rename", new, force, Nil), old, "GIT_ENOTFOUND")
          /\ Keeps
          /\ UNCHANGED <<entry, table, iterVars, shadowed>>
    /\ UNCHANGED alive

\* Mutant: the answer of git_oid_cmp taken the wrong way round.
ExpectedReversed(e, old) == old = Nil \/ old # Value(e)

\* old_id is compared with a direct entry and old_target with a symbolic one; the caller gives
\* at most one of them, or Nil.
Expected(e, old) == old \in {Nil, Value(e)} \cup {r \in Reference : r.type # e.type}

\* An old value of the other type was to be refused; and of a shadowed name the other entry
\* remains.
memory_ref_delete(n, old) ==
    /\ \/ \E i \in First(n) :
          LET e == entry[table[hash[n]][i]] IN
          \/ /\ Expected(e, old)
             /\ Freed(n, i)
             /\ Returns(With("delete", Nil, FALSE, old), n, "GIT_OK")
             /\ kept' = (old \in {Nil, Value(e)} /\ At(n) = {i})
             /\ UNCHANGED seen
          \/ /\ ~Expected(e, old)
             /\ Returns(With("delete", Nil, FALSE, old), n, "GIT_EMODIFIED")
             /\ Keeps
             /\ UNCHANGED <<entry, table, iterVars>>
       \/ /\ ~There(n)
          /\ Returns(With("delete", Nil, FALSE, old), n, "GIT_ENOTFOUND")
          /\ Keeps
          /\ UNCHANGED <<entry, table, iterVars>>
    /\ UNCHANGED <<alive, shadowed>>

memory_ref_free ==
    /\ entry' = [a \in Address |-> Nil]
    /\ table' = EmptyTable
    /\ alive' = FALSE
    /\ it' = NoIterator /\ seen' = {} /\ stay' = {}
    /\ shadowed' = {}
    /\ Returns(Op("free"), Nil, "GIT_OK")
    /\ Keeps

create_memory_refdb ==
    /\ ~alive
    /\ \/ alive' = TRUE /\ Returns(Op("create"), Nil, "GIT_OK")
       \/ UNCHANGED alive /\ Returns(Op("create"), Nil, "GIT_ENOMEM")
    /\ Keeps
    /\ UNCHANGED <<entry, table, iterVars, shadowed>>

\* Logs and compression do nothing; only reading a log says so.
Unlogged ==
    /\ \E c \in {"GIT_OK", "GIT_ENOTFOUND"} : Returns(Op("log"), Nil, c)
    /\ Keeps
    /\ UNCHANGED <<entry, table, alive, iterVars, shadowed>>

----------------------------------------------------------------------------
memory_ref_iterator ==
    /\ it.state = "none"
    /\ \/ /\ it' = Stands("open", 0, Nil)
          /\ seen' = {} /\ stay' = Allocated
          /\ Returns(Op("iterator"), Nil, "GIT_OK")
       \/ Returns(Op("iterator"), Nil, "GIT_ERROR") /\ UNCHANGED iterVars
    /\ Keeps
    /\ UNCHANGED <<entry, table, alive, shadowed>>

\* current_ref->next, wherever that entry is linked now.
After(a) ==
    {x \in Address : \E b \in Buckets : \E i \in 1..(Len(table[b]) - 1) :
                        table[b][i] = a /\ table[b][i + 1] = x}
\* Mutant: the search for the next list begins one list too far.
FilledFurther == {b \in Buckets : b > it.bucket + 1 /\ table[b] # <<>>}
Filled == {b \in Buckets : b > it.bucket /\ table[b] # <<>>}

Stand(b, a) ==
    /\ it' = Stands("open", b, a)
    /\ seen' = seen \cup {a}
    /\ UNCHANGED stay

\* The next entry of the list, else the first of the next bucket that has one.
Advance ==
    \/ \E a \in After(it.cur) : Stand(it.bucket, a)
    \/ /\ After(it.cur) = {}
       /\ \E b \in Filled : (\A c \in Filled : b <= c) /\ Stand(b, table[b][1])

AtEnd ==
    /\ After(it.cur) = {} /\ Filled = {}
    /\ it' = Stands("over", Size, it.cur)
    /\ UNCHANGED <<seen, stay>>

memory_ref_iterator_next_name ==
    /\ it.state = "open"
    /\ \/ Advance /\ Returns(Op("next_name"), Nil, "GIT_OK")
       \/ AtEnd /\ Returns(Op("next_name"), Nil, "GIT_ERROR")
    /\ Keeps
    /\ UNCHANGED <<entry, table, alive, shadowed>>

\* The reference is made by git_reference_create, without force, in a repository that has it
\* already; of a symbolic entry the target is not even an object.
memory_ref_iterator_next ==
    /\ it.state = "open"
    /\ \/ /\ Advance
          /\ Returns(Op("next"), Nil,
                     IF entry[it'.cur].target = Nil THEN "GIT_ERROR" ELSE "GIT_EEXISTS")
       \/ AtEnd /\ Returns(Op("next"), Nil, "GIT_ERROR")
    /\ Keeps
    /\ UNCHANGED <<entry, table, alive, shadowed>>

\* current_ref was freed: the call reads what is left of it, and whatever comes of that, this
\* iteration is not looked at any further.
IteratorDangles ==
    /\ it.state = "dangling"
    /\ \E c \in {"GIT_OK", "GIT_EEXISTS", "GIT_ERROR"} : Returns(Op("next"), Nil, c)
    /\ it' = NoIterator /\ seen' = {} /\ stay' = {}
    /\ Keeps
    /\ UNCHANGED <<entry, table, alive, shadowed>>

memory_ref_iterator_free ==
    /\ it.state # "none"
    /\ it' = NoIterator /\ seen' = {} /\ stay' = {}
    /\ Returns(Op("end"), Nil, "GIT_OK")
    /\ Keeps
    /\ UNCHANGED <<entry, table, alive, shadowed>>

----------------------------------------------------------------------------
Call ==
    \/ \E n \in Names : memory_ref_exists(n) \/ memory_ref_lookup(n) \/ WriteInvalid(n)
    \/ \E n \in Names, v \in Reference, force \in BOOLEAN, old \in Reference \cup {Nil} :
          memory_ref_write(n, v, force, old)
    \/ \E old, new \in Names, force \in BOOLEAN : memory_ref_rename(old, new, force)
    \/ \E n \in Names, old \in Reference \cup {Nil} : memory_ref_delete(n, old)
    \/ memory_ref_free
    \/ Unlogged
    \/ memory_ref_iterator \/ memory_ref_iterator_next_name \/ memory_ref_iterator_next
    \/ IteratorDangles \/ memory_ref_iterator_free

Next == (alive /\ Call) \/ create_memory_refdb

Spec == Init /\ [][Next]_vars

----------------------------------------------------------------------------
\* The state has its shape: a direct entry has an object id, a symbolic one a name.
TypeOK ==
    /\ entry \in [Address -> MemoryRef \cup {Nil}]
    /\ \A a \in Allocated : Value(entry[a]) \in Reference
    /\ table \in [Buckets -> Seq(Address)]
    /\ alive \in BOOLEAN /\ kept \in BOOLEAN
    /\ it \in Iterator /\ seen \subseteq Address /\ stay \subseteq Address
    /\ shadowed \subseteq Names
    /\ last \in [call : Calls, name : Names \cup {Nil}, code : Codes,
                out : Reference \cup {Nil}]

\* Every entry that calloc returned and nobody freed is in one place of one list, that of its
\* name, and no list has a freed entry: unlinking and freeing go together in write, rename and
\* delete, so that memory_ref_free frees each entry once and forgets none.
ListsSound ==
    /\ \A b \in Buckets : \A i \in DOMAIN table[b] :
          table[b][i] \in Allocated /\ hash[entry[table[b][i]].name] = b
    /\ \A b, c \in Buckets : \A i \in DOMAIN table[b], j \in DOMAIN table[c] :
          table[b][i] = table[c][j] => b = c /\ i = j
    /\ \A a \in Allocated : \E b \in Buckets : \E i \in DOMAIN table[b] : table[b][i] = a

\* A name has one entry, unless a forced rename hit it when it was there.
OneEntryPerName ==
    \A n \in Names \ shadowed : \A i, j \in At(n) : i = j

\* An iteration that ends without an error of its own visited every entry that was in the table
\* from its beginning to its end and was not renamed, whatever was written, deleted and renamed
\* meanwhile, unless the entry it stood on was itself freed or renamed.
IterationSeesAll ==
    it.state = "over" => stay \subseteq seen

\* A rename loses nothing, though it says that it failed: what was found under the old name is
\* found under the new one, and no other name changes.
RenameMoves ==
    [][LET old == last'.name  new == last'.call.arg IN
       last'.call.op = "rename" /\ last'.code = "GIT_ERROR" /\ old \notin shadowed
       => Refs' = [Refs EXCEPT ![old] = Nil, ![new] = Refs[old]]]_vars

\* The map that the lists stand for follows the contract of git_refdb_backend, call by call,
\* but for the calls that "kept" marks: an unforced write whose caller gave an old value, a
\* forced write of an id over a symbolic reference, a rename that finds its entry, a deletion
\* whose caller gave an old value of the other type, and the deletion of a shadowed name.  Those
\* change no name but their own, and the calls after them follow the contract again.
Map == INSTANCE RefMap WITH refs <- Refs, Values <- Reference, NoRef <- Nil
Contract == Map!Spec
=============================================================================
