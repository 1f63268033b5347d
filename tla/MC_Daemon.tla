----------------------------- MODULE MC_Daemon -----------------------------
(***************************************************************************)
(* Small instances of Daemon for TLC.  The client's SetConfig requests are *)
(* edited copies of a configuration: some handles, each with one of two    *)
(* settings (the default, or fan control on).                              *)
(***************************************************************************)
EXTENDS Daemon, TLC

MCClientSettings == {DefaultSettings, [DefaultSettings EXCEPT !.fan = TRUE]}

MCEntries == [ident: Devices, cfg: MCClientSettings]

(* The configurations the GUI can send back: one entry per card at most. *)
MCClientConfigs ==
    {c \in UNION {[H -> MCEntries] : H \in SUBSET Handles} :
        \A h1, h2 \in DOMAIN c : c[h1].ident = c[h2].ident => h1 = h2}

(* The client configurations with at most one entry. *)
MCSmallClientConfigs == {c \in MCClientConfigs : Cardinality(DOMAIN c) =< 1}

(* Any configuration a client may send, two entries for one card included. *)
MCAnyClientConfigs == UNION {[H -> MCEntries] : H \in SUBSET Handles}

(* The cards are card0, card1, ...: distinct indices below the number of  *)
(* cards.  Every index has one digit, so the symmetry of Devices is sound. *)
MCCardIndex == CHOOSE f \in [Devices -> 0..(Cardinality(Devices) - 1)] : IsInjective(f)

(* A machine whose second card is card10. *)
MCTenthCard == CHOOSE f \in [Devices -> {0, 10}] : IsInjective(f)

MCSymmetry == Permutations(Devices) \cup Permutations(Handles)

=============================================================================
