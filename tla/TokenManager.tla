----------------------------- MODULE TokenManager -----------------------------
(***************************************************************************)
(* TokenManager (natsprovider/utils.py): the OIDC token a provider shows to *)
(* its batch system, refreshed when somebody asks for it and the last       *)
(* refresh is old.  The age of that refresh is timedelta.seconds, which     *)
(* starts again at zero every day; its time is set before the refresh is    *)
(* tried.  The variant that reads a file is left out.                       *)
(***************************************************************************)
EXTENDS Naturals

CONSTANTS
    Validity,     \* token_validity_seconds
    Lifetime,     \* how long the issuer has a token accepted
    Day           \* one day

ASSUME TokenAssumption ==
    /\ Validity \in Nat /\ Lifetime \in Nat /\ Day \in Nat
    /\ Validity <= Lifetime /\ Validity + 1 < Day

VARIABLES
    token,        \* the age of _token; expired ones are all of one age
    refreshed,    \* _last_token_refresh, as its age modulo one day
    answering,    \* the issuer answers
    up,           \* how long it has, as far as it matters
    idle          \* how long nobody has asked for the token, as far as it matters

tokenVars == <<token, refreshed, answering, up, idle>>

Expired == Lifetime + 1
\* Asked for at least this often, the age of the last refresh passes through the
\* part of the day in which it calls for another one.
Often == Day - Validity

TokenTypeOK ==
    /\ token \in 0..Expired
    /\ refreshed \in 0..Day - 1
    /\ answering \in BOOLEAN
    /\ up \in 0..Validity + 1
    /\ idle \in 0..Often

\* The provider starts with a token, or does not: importing it asks for one.
TokenInit ==
    /\ token = 0 /\ refreshed = 0
    /\ answering \in BOOLEAN
    /\ up = 0 /\ idle = 0

Stale == refreshed > Validity

\* The property token: as it is, refreshed, or an exception of the refresh.  A gap
\* once too long is remembered until the next refresh.
KeptSliding ==
    /\ ~Stale
    /\ refreshed' = 0 /\ idle' = 0
    /\ UNCHANGED <<token, answering, up>>

Kept ==
    /\ ~Stale
    /\ idle' = IF idle < Often THEN 0 ELSE idle
    /\ UNCHANGED <<token, refreshed, answering, up>>

Refreshed ==
    /\ Stale /\ answering
    /\ token' = 0 /\ refreshed' = 0 /\ idle' = 0
    /\ UNCHANGED <<answering, up>>

RefreshFails ==
    /\ Stale /\ ~answering
    /\ refreshed' = 0 /\ idle' = 0
    /\ UNCHANGED <<token, answering, up>>

Given == Kept \/ Refreshed

IssuerFails == answering' = FALSE /\ up' = 0 /\ UNCHANGED <<token, refreshed, idle>>
IssuerAnswers == ~answering /\ answering' = TRUE /\ UNCHANGED <<token, refreshed, up, idle>>

TokenTime ==
    /\ token' = IF token <= Lifetime THEN token + 1 ELSE token
    /\ refreshed' = IF refreshed + 1 = Day THEN 0 ELSE refreshed + 1
    /\ up' = IF answering /\ up <= Validity THEN up + 1 ELSE up
    /\ idle' = IF idle < Often THEN idle + 1 ELSE idle
    /\ UNCHANGED answering

------------------------------------------------------------------------------

\* "taking care of refreshing the cache as needed": a token that would be handed
\* out is not older than its validity, once the issuer has answered for longer than
\* that and unless nobody asked for the token for nearly a day.
HandedOutIsFresh ==
    ~Stale /\ up > Validity /\ idle < Often => token <= Validity
==============================================================================
