--------------------------- MODULE BlockRegister ---------------------------
(***************************************************************************)
(* What the block list promises about one hash, whoever uses it and        *)
(* however many rows the table holds: the hash is in one of four states,   *)
(* a block takes effect only where there is none, it keeps the lifetime it *)
(* was given until it lapses, and it ends only by being cleared.           *)
(***************************************************************************)
CONSTANT Hashes

VARIABLE state  \* state[h]: "open", or the lifetime of the block in force

States == {"open", "never", "later", "past"}

Init == state = [h \in Hashes |-> "open"]

\* A block of lifetime life takes effect ("never": it is permanent).
Block(h, life) == state[h] = "open" /\ state' = [state EXCEPT ![h] = life]

\* A temporary block reaches its date.
Lapse(h) == state[h] = "later" /\ state' = [state EXCEPT ![h] = "past"]

\* Somebody unblocks the hash, or an expired block is removed.
Clear(h) == state[h] # "open" /\ state' = [state EXCEPT ![h] = "open"]

Next == \E h \in Hashes :
    (\E life \in States \ {"open"} : Block(h, life)) \/ Lapse(h) \/ Clear(h)

Spec == Init /\ [][Next]_state
=============================================================================
