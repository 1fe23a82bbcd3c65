-------------------------------- MODULE RefMap --------------------------------
(***************************************************************************)
(* What a reference database promises to libgit2: the callbacks of         *)
(* git_refdb_backend as operations on a map from names to values.  "last"  *)
(* is the last call: with what it was asked, the name it was about, what   *)
(* it returned and what it handed out.  Iterators and logs must leave the  *)
(* map alone.                                                              *)
(*                                                                         *)
(* Zero is success and anything else an error, which leaves the map alone; *)
(* which code an error has is left open where the header leaves it open.   *)
(* "kept" says whether the last call kept the promise.  One that did not   *)
(* may have done anything to the names it was about, and to no other; the  *)
(* next one goes on from there.                                            *)
(***************************************************************************)
CONSTANTS
    Names,     \* reference names
    Values,    \* what a reference holds: an object id or the name of another reference
    NoRef      \* not there

VARIABLES refs, last, kept

vars == <<refs, last, kept>>

\* A call: which callback, with a value or a name, with force and with an old value, if it
\* takes any.
With(o, x, f, v) == [op |-> o, arg |-> x, force |-> f, old |-> v]
Op(o) == With(o, NoRef, FALSE, NoRef)

Init ==
    /\ refs = [n \in Names |-> NoRef]
    /\ last = [call |-> Op("create"), name |-> NoRef, code |-> "GIT_OK", out |-> NoRef]
    /\ kept = TRUE

Answers(call, n, c, v) == last' = [call |-> call, name |-> n, code |-> c, out |-> v]
Returns(call, n, c) == Answers(call, n, c, NoRef)
There(n) == refs[n] # NoRef

Exists(n) ==
    /\ \/ Returns(Op("exists"), n, "found") /\ There(n)
       \/ Returns(Op("exists"), n, "missing") /\ ~There(n)
    /\ UNCHANGED refs

Lookup(n) ==
    /\ \/ Answers(Op("lookup"), n, "GIT_OK", refs[n]) /\ There(n)
       \/ Returns(Op("lookup"), n, "GIT_ENOMEM") /\ There(n)
       \/ Returns(Op("lookup"), n, "GIT_ENOTFOUND") /\ ~There(n)
    /\ UNCHANGED refs

\* A write that is not forced is made only if the reference is at the old value, and without
\* one only if there is no reference.
Write(n, v, force, old) ==
    \/ /\ Returns(With("write", v, force, old), n, "GIT_OK")
       /\ force \/ refs[n] = old
       /\ refs' = [refs EXCEPT ![n] = v]
    \/ /\ \E c \in {"GIT_EEXISTS", "GIT_EMODIFIED", "GIT_ENOTFOUND"} :
              Returns(With("write", v, force, old), n, c)
       /\ ~force /\ refs[n] # old
       /\ UNCHANGED refs
    \/ /\ Returns(With("write", v, force, old), n, "GIT_ENOMEM")
       /\ UNCHANGED refs

\* What is written is no reference.
WriteInvalid(n) ==
    /\ Returns(Op("write"), n, "GIT_EINVALIDSPEC")
    /\ UNCHANGED refs

\* A rename moves the value; over a reference that is there only if it is forced.
Rename(old, new, force) ==
    \/ /\ Returns(With("rename", new, force, NoRef), old, "GIT_OK")
       /\ There(old) /\ (force \/ ~There(new))
       /\ refs' = [refs EXCEPT ![old] = NoRef, ![new] = refs[old]]
    \/ /\ Returns(With("rename", new, force, NoRef), old, "GIT_EEXISTS")
       /\ There(new) /\ ~force
       /\ UNCHANGED refs
    \/ /\ Returns(With("rename", new, force, NoRef), old, "GIT_ENOTFOUND")
       /\ ~There(old)
       /\ UNCHANGED refs
    \/ /\ Returns(With("rename", new, force, NoRef), old, "GIT_ENOMEM")
       /\ UNCHANGED refs

\* A reference that is not at the old value the caller gives is not deleted.
Delete(n, old) ==
    \/ /\ Returns(With("delete", NoRef, FALSE, old), n, "GIT_OK")
       /\ There(n) /\ old \in {NoRef, refs[n]}
       /\ refs' = [refs EXCEPT ![n] = NoRef]
    \/ /\ Returns(With("delete", NoRef, FALSE, old), n, "GIT_EMODIFIED")
       /\ There(n) /\ old \notin {NoRef, refs[n]}
       /\ UNCHANGED refs
    \/ /\ Returns(With("delete", NoRef, FALSE, old), n, "GIT_ENOTFOUND")
       /\ ~There(n)
       /\ UNCHANGED refs

Free ==
    /\ Returns(Op("free"), NoRef, "GIT_OK")
    /\ refs' = [n \in Names |-> NoRef]

\* Iterators, logs, a backend made anew.
Other ==
    /\ last'.call.op \in {"create", "log", "iterator", "next", "next_name", "end"}
    /\ UNCHANGED refs

\* The last call, of what it was asked.
Promised ==
    LET n == last'.name  x == last'.call.arg  force == last'.call.force  old == last'.call.old IN
    \/ /\ n \in Names /\ force \in BOOLEAN /\ (old = NoRef \/ old \in Values)
       /\ \/ Exists(n) \/ Lookup(n) \/ WriteInvalid(n) \/ Delete(n, old)
          \/ x \in Values /\ Write(n, x, force, old)
          \/ x \in Names /\ Rename(n, x, force)
    \/ Free
    \/ Other

Broken == \A m \in Names : m \in {last'.name, last'.call.arg} \/ refs'[m] = refs[m]

Next == (kept' = TRUE /\ Promised) \/ (kept' = FALSE /\ Broken)

Spec == Init /\ [][Next]_vars
=============================================================================
