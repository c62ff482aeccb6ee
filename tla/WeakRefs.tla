------------------------------ MODULE WeakRefs ------------------------------
(***************************************************************************)
(* What strong and weak references to one shared object promise, as the    *)
(* triples of docs/internal/cown_rc_wait_free.md state it: a strong        *)
(* reference keeps the contents, a weak one the memory; a weak reference   *)
(* is promoted for as long as the contents have not been given up.         *)
(***************************************************************************)

CONSTANT Refs           \* the places that can hold a reference

VARIABLES ref,          \* ref[r]: "none", "strong" or "weak"
          life          \* "live", "collected" (contents gone) or "freed"

vars == <<ref, life>>

Init == /\ \E r \in Refs :
             ref = [x \in Refs |-> IF x = r THEN "strong" ELSE "none"]
        /\ life = "live"

(* A strong reference is copied, or a weak one is taken from it. *)
FromStrong(r, n, kind) ==
  /\ ref[r] = "strong" /\ ref[n] = "none"
  /\ ref' = [ref EXCEPT ![n] = kind]
  /\ UNCHANGED life

CopyWeak(r, n) == /\ ref[r] = "weak" /\ ref[n] = "none"
                  /\ ref' = [ref EXCEPT ![n] = "weak"]
                  /\ UNCHANGED life

(* Promotion works until the contents are gone (it may fail only then, and *)
(* changes nothing when it does).                                          *)
Promote(r, n) == /\ ref[r] = "weak" /\ ref[n] = "none"
                 /\ life = "live"
                 /\ ref' = [ref EXCEPT ![n] = "strong"]
                 /\ UNCHANGED life

Drop(r) == /\ ref[r] # "none"
           /\ ref' = [ref EXCEPT ![r] = "none"]
           /\ UNCHANGED life

(* The contents go once, with no strong reference left. *)
Collect == /\ life = "live"
           /\ \A r \in Refs : ref[r] # "strong"
           /\ life' = "collected"
           /\ UNCHANGED ref

(* The memory goes once, with no reference left. *)
Free == /\ life = "collected"
        /\ \A r \in Refs : ref[r] = "none"
        /\ life' = "freed"
        /\ UNCHANGED ref

Next == \/ \E r, n \in Refs : \/ FromStrong(r, n, "strong")
                              \/ FromStrong(r, n, "weak")
                              \/ CopyWeak(r, n) \/ Promote(r, n)
        \/ \E r \in Refs : Drop(r)
        \/ Collect \/ Free

Spec == Init /\ [][Next]_vars

=============================================================================
