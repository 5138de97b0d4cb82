---------------------------- MODULE Credentials -----------------------------
(***************************************************************************)
(* Credentials from the program's credentials_provider:                    *)
(* ve_tls_get_dynamic_credentials_owned in ve_tls_producer_sender.c.       *)
(* Senders share one set of credentials.  The first that finds them absent *)
(* or about to expire calls the provider with the mutex released; the      *)
(* others wait on send_cond until it broadcasts.  Each call works with the *)
(* time its caller read before it, however long it waited since.           *)
(***************************************************************************)
EXTENDS Integers, FiniteSets

CONSTANTS Callers,      \* sender threads
          Lives,        \* lifetimes the provider may grant; 0: no expiry
          Advance,      \* credentials_expire_advance_ms
          MinInterval,  \* credentials_refresh_min_interval_ms
          MaxTime       \* bound: the clock stops here

ASSUME CredentialsAssumption ==
    /\ IsFiniteSet(Callers) /\ Lives \subseteq Nat
    /\ Advance \in Nat /\ MinInterval \in Nat \ {0} /\ MaxTime \in Nat \ {0}

VARIABLES now,         \* time_ms()
          cred,        \* [have, expire]: cred_access_key_id ..., cred_expire_ms
          last,        \* cred_last_refresh_ms
          refreshing,  \* cred_refreshing
          call,        \* each sender's progress in the function
          bad          \* history: a provider call has failed

credVars == <<now, cred, last, refreshing, call, bad>>

NoCred == [have |-> FALSE, expire |-> 0]

\* at: the caller's now_ms.  res and used (the expiry of the credentials
\* returned) are history.
NoCall == [pc |-> "idle", at |-> 0, res |-> "none", used |-> 0]

CredentialsInit ==
    /\ now = 1 /\ cred = NoCred /\ last = 0 /\ refreshing = FALSE
    /\ call = [c \in Callers |-> NoCall]
    /\ bad = FALSE

Tick ==
    /\ now < MaxTime
    /\ now' = now + 1
    /\ UNCHANGED <<cred, last, refreshing, call, bad>>

CallBegin(c) ==
    /\ call[c].pc = "idle"
    /\ call' = [call EXCEPT ![c] = [NoCall EXCEPT !.pc = "check", !.at = now]]
    /\ UNCHANGED <<now, cred, last, refreshing, bad>>

\* Mutant: the expiry is not looked at.
NeedRefreshAbsent(t) == ~cred.have

NeedRefresh(t) == ~cred.have \/ (cred.expire > 0 /\ t + Advance >= cred.expire)

TooSoon(t) == last > 0 /\ t - last < MinInterval

Returned(c, r) == [NoCall EXCEPT !.res = r, !.at = call[c].at,
                                 !.used = IF r = "ok" THEN cred.expire ELSE 0]

\* The loop's head, under the mutex: wait while somebody refreshes; else use
\* the credentials if they are good, or if a refresh would come too soon after
\* the last one; fail if there are none to use; else become the refresher.
Check(c) ==
    /\ call[c].pc = "check"
    /\ \/ /\ refreshing
          /\ call' = [call EXCEPT ![c].pc = "wait"]
          /\ UNCHANGED refreshing
       \/ /\ ~refreshing
          /\ ~NeedRefresh(call[c].at) \/ TooSoon(call[c].at)
          /\ call' = [call EXCEPT ![c] = Returned(c, IF cred.have THEN "ok" ELSE "failed")]
          /\ UNCHANGED refreshing
       \/ /\ ~refreshing
          /\ NeedRefresh(call[c].at) /\ ~TooSoon(call[c].at)
          /\ refreshing' = TRUE
          /\ call' = [call EXCEPT ![c].pc = "provider"]
    /\ UNCHANGED <<now, cred, last, bad>>

\* Mutant: nobody is woken.
WokenNobody(c, next) == [call EXCEPT ![c] = next]

\* send_cond is broadcast: every waiting sender looks again; the refresher
\* does as next says.
Woken(c, next) == [d \in Callers |-> IF d = c THEN next
                                     ELSE IF call[d].pc = "wait" THEN [call[d] EXCEPT !.pc = "check"]
                                     ELSE call[d]]

\* The provider answers; the refresher stores the answer and looks again.
ProviderOk(c) ==
    /\ call[c].pc = "provider"
    /\ \E life \in Lives : cred' = [have |-> TRUE, expire |-> IF life = 0 THEN 0 ELSE now + life]
    /\ last' = call[c].at
    /\ refreshing' = FALSE
    /\ call' = Woken(c, [call[c] EXCEPT !.pc = "check"])
    /\ UNCHANGED <<now, bad>>

\* The provider fails (the old credentials stay), or its answer cannot be
\* copied (there are none afterwards): the refresher fails.
ProviderFails(c) ==
    /\ call[c].pc = "provider"
    /\ cred' \in {cred, NoCred}
    /\ last' = call[c].at
    /\ refreshing' = FALSE
    /\ call' = Woken(c, Returned(c, "failed"))
    /\ bad' = TRUE
    /\ UNCHANGED now

CredentialsNext ==
    \/ Tick
    \/ \E c \in Callers : CallBegin(c) \/ Check(c) \/ ProviderOk(c) \/ ProviderFails(c)

CredentialsSpec == CredentialsInit /\ [][CredentialsNext]_credVars

\* Threads run on and the provider returns.
CredentialsFairness ==
    \A c \in Callers : WF_credVars(Check(c)) /\ WF_credVars(ProviderOk(c) \/ ProviderFails(c))

-----------------------------------------------------------------------------
(* Properties *)

\* While the provider has never failed and grants more than the minimum
\* interval between refreshes, no call fails and none returns credentials that
\* had expired at its caller's time, whatever the order of refreshes and
\* however old that time is.  The provider is never called by two senders at a
\* time, and cred_refreshing is set exactly while one is in it: a refresher
\* that fails does not leave it set, and nobody waits for no one.
CredentialsUsable ==
    /\ (~bad /\ \A l \in Lives : l = 0 \/ l > MinInterval) =>
         \A c \in Callers :
            /\ call[c].res # "failed"
            /\ call[c].res = "ok" => call[c].used = 0 \/ call[c].used > call[c].at
    /\ Cardinality({c \in Callers : call[c].pc = "provider"}) = IF refreshing THEN 1 ELSE 0
    /\ \A c \in Callers : call[c].pc = "wait" => refreshing

\* Every call returns: nobody waits for ever and nobody refreshes for ever.
CallReturns == \A c \in Callers : call[c].pc = "check" ~> call[c].pc = "idle"
=============================================================================
