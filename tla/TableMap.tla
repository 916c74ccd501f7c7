----------------------------- MODULE TableMap -----------------------------
(***************************************************************************)
(* What a table promises (src/src/table/mod.rs, iter.rs): it is a map, and *)
(* a traversal with next returns every entry once while no field is added. *)
(***************************************************************************)
EXTENDS Naturals

CONSTANTS Keys, Values, Nil, Idle, MaxList

VARIABLES
    building,   \* whether nothing but the constructor used the table so far
    content,    \* the value of every key
    seen        \* the keys a traversal returned so far, or Idle

vars == <<building, content, seen>>

Present == {k \in Keys : content[k] # Nil}

Init ==
    /\ building = TRUE
    /\ content = [k \in Keys |-> Nil]
    /\ seen = Idle

(* The positional fields of a constructor are set at once.                 *)
SetList(list) ==
    /\ building
    /\ building' = FALSE
    /\ content' = [k \in Keys |-> IF k \in DOMAIN list THEN list[k] ELSE content[k]]
    /\ UNCHANGED seen

(* A field is set. Adding one ends what is known of a traversal.           *)
Write(k, v) ==
    /\ content' = [content EXCEPT ![k] = v]
    /\ seen' = IF content[k] = Nil /\ v # Nil THEN Idle ELSE seen
    /\ UNCHANGED building

(* The length is asked for.                                                *)
Measure ==
    /\ building' = FALSE
    /\ UNCHANGED <<content, seen>>

(* next(t, nil)                                                            *)
Begin(k) ==
    /\ k \in Present
    /\ seen' = {k}
    /\ building' = FALSE
    /\ UNCHANGED content

Visit(k) ==
    /\ seen # Idle
    /\ k \in Present \ seen
    /\ seen' = seen \cup {k}
    /\ UNCHANGED <<building, content>>

End ==
    /\ seen # Idle
    /\ Present \subseteq seen
    /\ seen' = Idle
    /\ UNCHANGED <<building, content>>

Next ==
    \/ \E n \in 1..MaxList : \E list \in [1..n -> Values \cup {Nil}] : SetList(list)
    \/ \E k \in Keys, v \in Values \cup {Nil} : Write(k, v)
    \/ \E k \in Keys : Begin(k) \/ Visit(k)
    \/ Measure
    \/ End

Spec == Init /\ [][Next]_vars
===========================================================================
