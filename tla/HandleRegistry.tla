--------------------------- MODULE HandleRegistry ---------------------------
(***************************************************************************)
(* What the LACT daemon promises about GPU handles, without its settings, *)
(* its requests or its hardware.  A handle is the key under which a card   *)
(* is addressed by clients and kept in /etc/lact.json.                     *)
(*                                                                         *)
(*   reg   the handles the persisted configuration holds, each with its    *)
(*         card (gpu_configs, as a map handle -> identifier);              *)
(*   live  the handles the serving (or last served) controllers carry;     *)
(*   cards the cards the machine has;                                      *)
(*   up    the daemon serves.                                              *)
(*                                                                         *)
(* A start registers every present card, under the handle the registry    *)
(* already gives it when it has one and under a fresh handle otherwise,   *)
(* and keeps every earlier registration.  A client may replace the whole   *)
(* registry while the daemon serves, with one handle per card.            *)
(***************************************************************************)
EXTENDS FiniteSets, Functions

CONSTANTS Cards, Handles

VARIABLES up, cards, reg, live

regVars == <<up, cards, reg, live>>

(* A registry: some handles, each naming one card. *)
IsRegistry(f) == DOMAIN f \subseteq Handles /\ f \in [DOMAIN f -> Cards]

NoHandles == [h \in {} |-> CHOOSE c \in Cards : TRUE]

(* The handle maps that register the present cards one to one. *)
Registrations == {l \in UNION {[H -> cards] : H \in SUBSET Handles} :
                    IsInjective(l) /\ Range(l) = cards}

(* f and g agree on the handles they share. *)
Agree(f, g) == \A h \in DOMAIN f \cap DOMAIN g : f[h] = g[h]

(* l registers the present cards as the registry r says: a card r names   *)
(* keeps r's handle, and a fresh handle is one r does not use.            *)
Reconciles(r, l) ==
    /\ Agree(r, l)
    /\ \A h \in DOMAIN r : r[h] \in cards => h \in DOMAIN l

(* The registry f extended with the handles of g. *)
Extend(f, g) == [h \in DOMAIN f \cup DOMAIN g |-> IF h \in DOMAIN f THEN f[h] ELSE g[h]]

RegInit ==
    /\ up = FALSE
    /\ cards \in SUBSET Cards
    /\ reg = NoHandles /\ live = NoHandles

(* The daemon comes up: every present card the registry names keeps its   *)
(* handle, the other present cards get handles the registry does not use,  *)
(* and the result is added to the registry.                                *)
Start ==
    /\ ~up
    /\ \E l \in Registrations :
         /\ Reconciles(reg, l)
         /\ live' = l
         /\ reg' = Extend(reg, l)
    /\ up' = TRUE
    /\ UNCHANGED cards

(* A client replaces the registry: one handle per card, the present cards *)
(* registered and served under it.  The daemon may die in the same step,  *)
(* before it answers.                                                     *)
Replace ==
    /\ up
    /\ \E r \in {f \in UNION {[H -> Cards] : H \in SUBSET Handles} : IsInjective(f)} :
       \E l \in Registrations :
         /\ Reconciles(r, l)
         /\ live' = l
         /\ reg' = Extend(r, l)
    /\ up' \in BOOLEAN
    /\ UNCHANGED cards

(* The daemon stops: it exits, crashes or is killed. *)
Stop ==
    /\ up
    /\ up' = FALSE
    /\ UNCHANGED <<cards, reg, live>>

(* Cards are added or removed while the daemon is down. *)
Replug ==
    /\ ~up
    /\ cards' \in SUBSET Cards
    /\ UNCHANGED <<up, reg, live>>

RegNext == Start \/ Replace \/ Stop \/ Replug

RegSpec == RegInit /\ [][RegNext]_regVars

-----------------------------------------------------------------------------

RegTypeOK ==
    /\ up \in BOOLEAN
    /\ cards \subseteq Cards
    /\ IsRegistry(reg) /\ IsRegistry(live)

(* The registry never holds two handles for one card, and the served       *)
(* handles are registered ones.                                            *)
RegConsistent ==
    /\ IsInjective(reg)
    /\ up => /\ DOMAIN live \subseteq DOMAIN reg
             /\ \A h \in DOMAIN live : live[h] = reg[h]

=============================================================================
