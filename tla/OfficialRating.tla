----------------------------- MODULE OfficialRating -----------------------------
(* The official rating of one account: fetched outside the store's transactions  *)
(* by concurrent requests, stored as the next of an append-only list of snapshots.*)
EXTENDS Naturals

CONSTANTS Refreshes,     \* concurrent requests
          Handles,       \* handles the account has had
          MaxRating      \* bound: rated contests of a handle

ASSUME RatingAssumption == MaxRating \in Nat

VARIABLES
    handle,      \* the handle of the stored account
    official,    \* the rating of each handle at Codeforces: rated contests so far
    rating,      \* the latest stored snapshot
    refresh      \* what each request has read and fetched

ratingVars == <<handle, official, rating, refresh>>

NoRefresh == [step |-> "idle", handle |-> CHOOSE h \in Handles : TRUE, revision |-> 0, value |-> 0]

Revisions == 0..(MaxRating + 1)

RatingTypeOK ==
    /\ handle \in Handles
    /\ official \in [Handles -> 0..MaxRating]
    /\ rating \in [revision : Revisions, handle : Handles, value : 0..MaxRating]
    /\ refresh \in [Refreshes -> [step : {"idle", "reading", "fetched"}, handle : Handles,
                                  revision : Revisions, value : 0..MaxRating]]

RatingInit ==
    /\ handle \in Handles
    /\ official = [h \in Handles |-> 0]
    /\ rating = [revision |-> 0, handle |-> handle, value |-> 0]
    /\ refresh = [f \in Refreshes |-> NoRefresh]

-----------------------------------------------------------------------------

\* The account and its latest snapshot are read before the network is used.
BeginRefresh(f) ==
    /\ refresh[f].step = "idle"
    /\ refresh' = [refresh EXCEPT ![f] = [step |-> "reading", handle |-> handle,
                                          revision |-> rating.revision, value |-> 0]]
    /\ UNCHANGED <<handle, official, rating>>

FetchRating(f) ==
    /\ refresh[f].step = "reading"
    /\ refresh' = [refresh EXCEPT ![f].step = "fetched", ![f].value = official[refresh[f].handle]]
    /\ UNCHANGED <<handle, official, rating>>

\* Defect: the revision is read again when the answer is stored.
BaseReread(f) == rating.revision

\* The revision the new snapshot is appended to: the one read before the fetch.
Base(f) == refresh[f].revision

\* Defect: the account is not compared.
AnyAccount(f) == TRUE

\* The account of the request is still the stored one.
SameAccount(f) == refresh[f].handle = handle

StoreRating(f) ==
    /\ refresh[f].step = "fetched"
    /\ SameAccount(f)
    /\ Base(f) = rating.revision
    /\ rating.revision <= MaxRating
    /\ rating' = [revision |-> Base(f) + 1, handle |-> refresh[f].handle, value |-> refresh[f].value]
    /\ refresh' = [refresh EXCEPT ![f] = NoRefresh]
    /\ UNCHANGED <<handle, official>>

\* A failed fetch, a cancellation, or a refusal of the store.
EndRefresh(f) ==
    /\ refresh[f].step # "idle"
    /\ refresh' = [refresh EXCEPT ![f] = NoRefresh]
    /\ UNCHANGED <<handle, official, rating>>

\* An import writes the account again.
UpsertAccount(h) ==
    /\ h # handle
    /\ handle' = h
    /\ UNCHANGED <<official, rating, refresh>>

RateContest(h) ==
    /\ official[h] < MaxRating
    /\ official' = [official EXCEPT ![h] = @ + 1]
    /\ UNCHANGED <<handle, rating, refresh>>

RatingNext ==
    \/ \E f \in Refreshes : BeginRefresh(f) \/ FetchRating(f) \/ StoreRating(f) \/ EndRefresh(f)
    \/ \E h \in Handles : UpsertAccount(h) \/ RateContest(h)

-----------------------------------------------------------------------------

\* A stored rating is of the handle the account has when it is stored, and is never
\* replaced by an older one of the same handle, whichever fetch answers last.
RatingMovesOn ==
    [][rating' # rating =>
          /\ rating'.handle = handle
          /\ rating'.handle = rating.handle => rating'.value >= rating.value]_ratingVars

=============================================================================
