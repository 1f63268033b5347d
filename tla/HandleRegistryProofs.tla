------------------------ MODULE HandleRegistryProofs ------------------------
(***************************************************************************)
(* Proofs about the handle promise: for any cards and handles, the         *)
(* registry never holds two handles for one card, and the daemon serves    *)
(* only registered handles.                                                *)
(***************************************************************************)
EXTENDS HandleRegistry, TLAPS

RegInv == RegTypeOK /\ RegConsistent

(* A member of Registrations is a one-to-one map of handles onto the       *)
(* present cards.                                                          *)
LEMMA RegistrationShape ==
    ASSUME NEW l \in Registrations
    PROVE  /\ DOMAIN l \subseteq Handles
           /\ l \in [DOMAIN l -> cards]
           /\ IsInjective(l) /\ Range(l) = cards
<1>1. PICK H \in SUBSET Handles : l \in [H -> cards]
  BY DEF Registrations
<1>. QED
  BY <1>1 DEF Registrations

(* Extending a one-handle-per-card registry by a reconciliation of the     *)
(* cards C keeps one handle per card, and contains the reconciliation.     *)
LEMMA ExtendKeepsOneHandle ==
    ASSUME NEW r, NEW l, NEW C, C \subseteq Cards,
           IsRegistry(r), IsInjective(r),
           DOMAIN l \subseteq Handles, l \in [DOMAIN l -> C], IsInjective(l),
           Agree(r, l),
           \A h \in DOMAIN r : r[h] \in C => h \in DOMAIN l
    PROVE  LET e == Extend(r, l)
           IN  /\ IsRegistry(e)
               /\ IsInjective(e)
               /\ DOMAIN l \subseteq DOMAIN e
               /\ \A h \in DOMAIN l : l[h] = e[h]
<1>. DEFINE e == Extend(r, l)
<1>1. DOMAIN e = DOMAIN r \cup DOMAIN l
  BY DEF Extend
<1>2. \A h \in DOMAIN l : e[h] = l[h]
  BY DEF Extend, Agree
<1>3. IsRegistry(e)
  BY <1>1 DEF Extend, IsRegistry
<1>4. IsInjective(e)
  <2>. SUFFICES ASSUME NEW h1 \in DOMAIN e, NEW h2 \in DOMAIN e, e[h1] = e[h2]
                PROVE  h1 = h2
    BY DEF IsInjective
  <2>1. CASE h1 \in DOMAIN l /\ h2 \in DOMAIN l
    BY <2>1, <1>2 DEF IsInjective
  <2>2. CASE h1 \in DOMAIN r \ DOMAIN l /\ h2 \in DOMAIN r \ DOMAIN l
    BY <2>2 DEF Extend, IsInjective
  <2>3. ASSUME NEW k1 \in DOMAIN r \ DOMAIN l, NEW k2 \in DOMAIN l, e[k1] = e[k2]
        PROVE  FALSE
    <3>1. e[k1] = r[k1] /\ e[k2] = l[k2]
      BY <1>2 DEF Extend
    <3>2. r[k1] \in C
      BY <2>3, <3>1
    <3>. QED
      BY <2>3, <3>2
  <2>. QED
    BY <1>1, <2>1, <2>2, <2>3
<1>. QED
  BY <1>1, <1>2, <1>3, <1>4

LEMMA RegInitInv == RegInit => RegInv
BY DEF RegInit, RegInv, RegTypeOK, RegConsistent, IsRegistry, IsInjective, NoHandles

(* A start registers the present cards on top of the registry. *)
LEMMA StartInv ==
    ASSUME RegInv, Start
    PROVE  RegInv'
<1>1. PICK l \in Registrations :
         /\ Reconciles(reg, l)
         /\ live' = l
         /\ reg' = Extend(reg, l)
  BY DEF Start
<1>2. /\ DOMAIN l \subseteq Handles /\ l \in [DOMAIN l -> cards] /\ IsInjective(l)
  BY RegistrationShape
<1>3. LET e == Extend(reg, l)
      IN  /\ IsRegistry(e) /\ IsInjective(e)
          /\ DOMAIN l \subseteq DOMAIN e /\ \A h \in DOMAIN l : l[h] = e[h]
  BY <1>1, <1>2, ExtendKeepsOneHandle DEF RegInv, RegTypeOK, RegConsistent, Reconciles
<1>4. IsRegistry(l)
  BY <1>2 DEF RegInv, RegTypeOK, IsRegistry
<1>. QED
  BY <1>1, <1>3, <1>4 DEF Start, RegInv, RegTypeOK, RegConsistent

(* A client's replacement registry is reconciled like a start's. *)
LEMMA ReplaceInv ==
    ASSUME RegInv, Replace
    PROVE  RegInv'
<1>1. PICK r \in {f \in UNION {[H -> Cards] : H \in SUBSET Handles} : IsInjective(f)} :
         \E l \in Registrations :
           /\ Reconciles(r, l)
           /\ live' = l
           /\ reg' = Extend(r, l)
  BY DEF Replace
<1>2. PICK l \in Registrations :
           /\ Reconciles(r, l)
           /\ live' = l
           /\ reg' = Extend(r, l)
  BY <1>1
<1>3. IsRegistry(r) /\ IsInjective(r)
  BY <1>1 DEF IsRegistry
<1>4. /\ DOMAIN l \subseteq Handles /\ l \in [DOMAIN l -> cards] /\ IsInjective(l)
  BY RegistrationShape
<1>5. LET e == Extend(r, l)
      IN  /\ IsRegistry(e) /\ IsInjective(e)
          /\ DOMAIN l \subseteq DOMAIN e /\ \A h \in DOMAIN l : l[h] = e[h]
  BY <1>2, <1>3, <1>4, ExtendKeepsOneHandle DEF RegInv, RegTypeOK, Reconciles
<1>6. IsRegistry(l)
  BY <1>4 DEF RegInv, RegTypeOK, IsRegistry
<1>. QED
  BY <1>2, <1>5, <1>6 DEF Replace, RegInv, RegTypeOK, RegConsistent

LEMMA RegNextInv ==
    RegInv /\ [RegNext]_regVars => RegInv'
<1>. SUFFICES ASSUME RegInv, [RegNext]_regVars PROVE RegInv'
  OBVIOUS
<1>1. CASE Start
  BY <1>1, StartInv
<1>2. CASE Replace
  BY <1>2, ReplaceInv
<1>3. CASE Stop
  BY <1>3 DEF Stop, RegInv, RegTypeOK, RegConsistent, IsRegistry, IsInjective
<1>5. CASE Replug
  BY <1>5 DEF Replug, RegInv, RegTypeOK, RegConsistent, IsRegistry, IsInjective
<1>4. CASE UNCHANGED regVars
  BY <1>4 DEF regVars, RegInv, RegTypeOK, RegConsistent
<1>. QED
  BY <1>1, <1>2, <1>3, <1>4, <1>5 DEF RegNext

(* Whatever the cards and handles, the reconciliation of Daemon::new and   *)
(* of SetConfig never gives one card two persisted handles, and the daemon *)
(* serves only handles /etc/lact.json holds for the same card.             *)
THEOREM RegistryConsistent == RegSpec => []RegConsistent
<1>1. RegInv => RegConsistent
  BY DEF RegInv
<1>. QED
  BY <1>1, RegInitInv, RegNextInv, PTL DEF RegSpec

=============================================================================
