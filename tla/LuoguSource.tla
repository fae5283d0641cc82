----------------------------- MODULE LuoguSource -----------------------------
(***************************************************************************)
(* What the models of the Luogu synchronisation share: the accounts of one *)
(* source instance, and the services that different processes run over the *)
(* same database.                                                          *)
(***************************************************************************)
CONSTANTS
    Accounts,     \* the accounts of the source instance
    NoAccount,
    Services,     \* synchronisation services, each with an owner id of its own
    Nobody        \* the owner of a row without a lease

ASSUME SourceAssumption ==
    /\ NoAccount \notin Accounts
    /\ Nobody \notin Services
=============================================================================
