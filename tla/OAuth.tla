------------------------------- MODULE OAuth -------------------------------
(***************************************************************************)
(* OAuth grants with single-use refresh tokens: the keystore's locked      *)
(* state, the credential map with its encrypted blobs, the access-token    *)
(* cache, the quarantine and the read view of the MCP connect path         *)
(* (daemon/keystore.rs, daemon/oauth_store/), the registry of single-      *)
(* flight locks (oauth_refresh_locks.rs), and the two engines that refresh *)
(* a grant: a session's provider refresh (oauth_refresh/), which asks the  *)
(* command loop and waits, and an MCP adapter (choreo-mcp auth/adapter.rs  *)
(* over mcp/oauth.rs), which reads the view and writes fire-and-forget.    *)
(*                                                                         *)
(* A refresh token is its grant and its place in the grant's rotations; an *)
(* access token is the grant it was minted from.  Times and expiries are a *)
(* choice: a cached token is usable or it is not.  The authorization       *)
(* server and rmcp, which drives the adapter, are external.                *)
(***************************************************************************)
EXTENDS Integers, Sequences, FiniteSets

CONSTANTS
  Workers,        \* threads that refresh: sessions and MCP adapters
  ProviderKeys,   \* accounts with a provider grant
  McpKeys,        \* mcp: keys
  Serves,         \* which keys the workers may serve: functions from Workers to Keys
  MaxGrants,      \* bound: sign-ins per key, the first included
  MaxExchanges,   \* bound: exchanges the server grants, of all keys
  MaxEvents,      \* bound: clients' commands, replaced connections and faults
  MaxQueue        \* bound: commands of the workers that wait in the channel

Keys == ProviderKeys \cup McpKeys
ASSUME KeysAssumption == ProviderKeys \cap McpKeys = {} /\ Keys # {}
ASSUME BoundsAssumption ==
  MaxGrants \in Nat \ {0} /\ MaxExchanges \in Nat /\ MaxEvents \in Nat
  /\ MaxQueue \in Nat \ {0}
ASSUME ServesAssumption == Serves # {} /\ Serves \subseteq [Workers -> Keys]
ASSUME FinitelyMany == IsFiniteSet(Workers) /\ IsFiniteSet(Keys)

VARIABLES
  locked,    \* locked
  store,     \* per key: credentials, blob, access_tokens, dead_oauth, the MCP snapshot
             \* (view), and as history whether a failed write left it (ahead)
  queue,     \* the command channel, the workers' commands
  wk,        \* the workers
  registry,  \* OAUTH_REFRESH_LOCKS: the key's lock, or 0
  free,      \* locks whose token is in the channel
  live,      \* refresh tokens the authorization server honours
  lost,      \* history: spent tokens whose successor a fault kept from the store
  grants,    \* sign-ins so far
  exchanges, \* exchanges granted so far
  events     \* events so far

daemon == <<locked, store, queue>>
single == <<registry, free>>
server == <<live, lost, grants, exchanges>>
vars == <<daemon, wk, single, server, events>>

Tokens == [g : 0..MaxGrants, n : 0..MaxExchanges]
None == [g |-> 0, n |-> 0]
First == [g |-> 1, n |-> 0]
Locks == 1..(Cardinality(Workers) + Cardinality(Keys))

\* pc: "idle", "wait" (has the lock's handle), "load", "loading" (LoadOAuthToken
\* sent), "exchange", "saving" (SaveOAuthToken sent), "publish", "send" (between
\* the read view and the command), "release", "prune".
Idle(k) ==
  [key |-> k, pc |-> "idle", handle |-> 0, token |-> None, seed |-> None,
   cache |-> None, out |-> <<>>]

\* The daemon has just been unlocked, with the grants of earlier sign-ins.
Init ==
  /\ locked = FALSE
  /\ store = [k \in Keys |-> [cred |-> First, blob |-> First, access |-> 0, dead |-> FALSE,
                              view |-> IF k \in McpKeys THEN First ELSE None, ahead |-> FALSE]]
  /\ queue = <<>> /\ registry = [k \in Keys |-> 0] /\ free = {}
  /\ wk \in {[w \in Workers |-> Idle(f[w])] : f \in Serves}
  /\ live = [k \in Keys |-> {First}] /\ lost = [k \in Keys |-> {}]
  /\ grants = [k \in Keys |-> 1] /\ exchanges = 0
  /\ events = 0

-----------------------------------------------------------------------------
\* A client's command or a fault.
Event == events < MaxEvents /\ events' = events + 1

-----------------------------------------------------------------------------
(* The lock registry.                                                      *)

Strong(l) == \E w \in Workers : wk[w].handle = l

NewLock == CHOOSE l \in Locks : ~Strong(l) /\ \A k \in Keys : registry[k] # l

\* A refresh begins: acquire returns the key's lock, or mints one.
Acquire(w) ==
  LET k == wk[w].key
      l == IF registry[k] # 0 THEN registry[k] ELSE NewLock IN
  /\ wk[w].pc = "idle"
  /\ registry' = [registry EXCEPT ![k] = l]
  /\ free' = IF registry[k] # 0 THEN free ELSE free \cup {l}
  /\ wk' = [wk EXCEPT ![w].pc = "wait", ![w].handle = l]
  /\ UNCHANGED <<daemon, server, events>>

Post(c) == Len(queue) < MaxQueue /\ queue' = Append(queue, c)

\* Mutant: the lock is taken whether or not its token is there.
TakeLockAlways(w) ==
  /\ wk[w].pc = "wait" /\ free' = free \ {wk[w].handle}
  /\ \/ /\ wk[w].key \in ProviderKeys
        /\ Post([type |-> "Load", key |-> wk[w].key, w |-> w])
        /\ wk' = [wk EXCEPT ![w].pc = "loading"]
     \/ /\ wk[w].key \in McpKeys
        /\ wk' = [wk EXCEPT ![w].pc = "load"] /\ UNCHANGED queue
  /\ UNCHANGED <<locked, store, registry, server, events>>

\* The lock's token is received; a provider refresh asks for its load at once.
TakeLock(w) ==
  /\ wk[w].pc = "wait" /\ wk[w].handle \in free
  /\ free' = free \ {wk[w].handle}
  /\ \/ /\ wk[w].key \in ProviderKeys
        /\ Post([type |-> "Load", key |-> wk[w].key, w |-> w])
        /\ wk' = [wk EXCEPT ![w].pc = "loading"]
     \/ /\ wk[w].key \in McpKeys
        /\ wk' = [wk EXCEPT ![w].pc = "load"] /\ UNCHANGED queue
  /\ UNCHANGED <<locked, store, registry, server, events>>

\* The guard goes: its token first, its handle after.  The adapter's seed is
\* read only after the next full load has set it again.
Release(w) ==
  /\ wk[w].pc = "release"
  /\ free' = free \cup {wk[w].handle}
  /\ wk' = [wk EXCEPT ![w].handle = 0, ![w].token = None, ![w].seed = None,
                      ![w].pc = IF wk[w].key \in McpKeys THEN "idle" ELSE "prune"]
  /\ UNCHANGED <<daemon, registry, server, events>>

\* Mutant: the guard does not pin its lock, only a waiter does.
RetainedForWaiters ==
  [k \in Keys |-> IF \E w \in Workers : wk[w].pc = "wait" /\ wk[w].handle = registry[k]
                  THEN registry[k] ELSE 0]

\* prune_map: what only the registry still owns is dropped.
Retained == [k \in Keys |-> IF registry[k] # 0 /\ Strong(registry[k]) THEN registry[k] ELSE 0]

Prune(w) ==
  /\ wk[w].pc = "prune"
  /\ registry' = Retained
  /\ wk' = [wk EXCEPT ![w].pc = "idle"]
  /\ UNCHANGED <<daemon, free, server, events>>

-----------------------------------------------------------------------------
(* The authorization server, external: it honours a token once when it     *)
(* rotates it, and refuses it for good afterwards.                         *)

Successor(t) == [t EXCEPT !.n = @ + 1]

\* What the server does with token t of key k, and what its answer carries.
Rotates(k, t) ==
  /\ t \in live[k] /\ exchanges < MaxExchanges /\ exchanges' = exchanges + 1
  /\ live' = [live EXCEPT ![k] = (@ \ {t}) \cup {Successor(t)}]
Keeps(k, t) ==
  /\ t \in live[k] /\ exchanges < MaxExchanges /\ exchanges' = exchanges + 1
  /\ UNCHANGED live
Accepts(k, t) == Keeps(k, t) \/ Rotates(k, t)
Answer(k, t) == IF t \in live'[k] THEN t ELSE Successor(t)

Revoke(k) ==
  /\ Event
  /\ \E t \in live[k] :
       live' = [live EXCEPT ![k] = @ \ {t}] /\ lost' = [lost EXCEPT ![k] = @ \cup {t}]
  /\ UNCHANGED <<daemon, wk, single, grants, exchanges>>

\* The exchange fails for now; the server may have rotated the token already.
ExchangeFails(w) ==
  LET k == wk[w].key
      t == wk[w].token IN
  /\ wk[w].pc = "exchange"
  /\ \/ UNCHANGED <<live, lost, exchanges, events>>
     \/ Event /\ Rotates(k, t) /\ lost' = [lost EXCEPT ![k] = @ \cup {t}]
  /\ wk' = [wk EXCEPT ![w].pc = "release"]
  /\ UNCHANGED <<daemon, single, grants>>

-----------------------------------------------------------------------------
(* The provider engine: refresh_under_lock over DaemonTokenSource.         *)

ProviderRefreshed(w) ==
  LET k == wk[w].key
      t == wk[w].token IN
  /\ wk[w].pc = "exchange" /\ k \in ProviderKeys
  /\ Accepts(k, t)
  /\ Post([type |-> "Save", key |-> k, w |-> w, token |-> Answer(k, t), expected |-> t])
  /\ wk' = [wk EXCEPT ![w].pc = "saving"]
  /\ UNCHANGED <<locked, store, single, lost, grants, events>>

ProviderRejected(w) ==
  LET k == wk[w].key IN
  /\ wk[w].pc = "exchange" /\ k \in ProviderKeys /\ wk[w].token \notin live[k]
  /\ Post([type |-> "MarkDead", key |-> k])
  /\ wk' = [wk EXCEPT ![w].pc = "release"]
  /\ UNCHANGED <<locked, store, single, server, events>>

-----------------------------------------------------------------------------
(* The MCP engine: the adapter under rmcp's refresh.  It publishes into    *)
(* the read view, then sends the command, then lets the guard go.  A load  *)
(* that the warm cache serves changes nothing and starts no refresh.       *)

\* The full load: the view's grant is the seed; what is presented is the
\* cached response's token, or the seed's when the adapter is cold.
AdapterLoads(w) ==
  LET v == store[wk[w].key].view
      c == wk[w].cache IN
  /\ wk[w].pc = "load" /\ wk[w].key \in McpKeys
  /\ \/ v = None /\ wk' = [wk EXCEPT ![w].pc = "release"]
     \/ v # None /\ wk' = [wk EXCEPT ![w].pc = "exchange", ![w].seed = v,
                                     ![w].token = IF c = None THEN v ELSE c]
  /\ UNCHANGED <<daemon, single, server, events>>

\* project_durable_grant: a durable change is a token that is not the seed's.
Durable(answer, seed) == answer # seed

\* save: the cache takes the answer, the backend a durable change.
AdapterRefreshed(w) ==
  LET k == wk[w].key
      t == wk[w].token
      s == wk[w].seed IN
  /\ wk[w].pc = "exchange" /\ k \in McpKeys
  /\ Accepts(k, t)
  /\ LET a == Answer(k, t) IN
     \/ ~Durable(a, s) /\ wk' = [wk EXCEPT ![w].cache = a, ![w].pc = "release"]
     \/ Durable(a, s) /\ wk' = [wk EXCEPT ![w].cache = a, ![w].pc = "publish",
          ![w].out = <<[type |-> "OAuthSave", key |-> k, token |-> a, expected |-> s,
                        spent |-> t, alone |-> FALSE]>>]
  /\ UNCHANGED <<daemon, single, lost, grants, events>>

AdapterRejected(w) ==
  LET k == wk[w].key IN
  /\ wk[w].pc = "exchange" /\ k \in McpKeys /\ wk[w].token \notin live[k]
  /\ wk' = [wk EXCEPT ![w].pc = "publish", ![w].out = <<[type |-> "AuthRejected", key |-> k]>>]
  /\ UNCHANGED <<daemon, single, server, events>>

\* rmcp clears the adapter's credential, without the guard.
AdapterClears(w) ==
  LET k == wk[w].key IN
  /\ Event /\ wk[w].pc = "idle" /\ k \in McpKeys
  /\ wk' = [wk EXCEPT ![w] = [Idle(k) EXCEPT !.pc = "publish",
                                !.out = <<[type |-> "OAuthClear", key |-> k]>>]]
  /\ UNCHANGED <<daemon, single, server>>

\* The connection is replaced: its adapter starts cold.
AdapterReplaced(w) ==
  /\ Event /\ wk[w].pc = "idle" /\ wk[w].cache # None
  /\ wk' = [wk EXCEPT ![w] = Idle(wk[w].key)]
  /\ UNCHANGED <<daemon, single, server>>

\* publish_credential or remove_credential, ahead of the command.
Shown(c) == IF c.type = "OAuthSave" THEN c.token ELSE None
AdapterPublishes(w) ==
  /\ wk[w].pc = "publish"
  /\ store' = [store EXCEPT ![wk[w].key].view = Shown(Head(wk[w].out))]
  /\ wk' = [wk EXCEPT ![w].pc = "send"]
  /\ UNCHANGED <<locked, queue, single, server, events>>

Saves(k) == {i \in DOMAIN queue : queue[i].type \in {"Save", "OAuthSave"} /\ queue[i].key = k}

\* As history, a save is marked that is still shown and the only one of its key
\* on its way, until an unlock republishes every key.
Marked(k, c) ==
  IF c.type # "OAuthSave" THEN c
  ELSE [c EXCEPT !.alone = Saves(k) = {} /\ store[k].view = c.token]

AdapterSends(w) ==
  /\ wk[w].pc = "send"
  /\ Post(Marked(wk[w].key, Head(wk[w].out)))
  /\ wk' = [wk EXCEPT ![w].pc = IF wk[w].handle # 0 THEN "release" ELSE "idle", ![w].out = <<>>]
  /\ UNCHANGED <<locked, store, single, server, events>>

-----------------------------------------------------------------------------
(* The command loop: the workers' commands.                                *)

\* publish_mcp_oauth_key: the view of a key's durable value, quarantined
\* grants withheld; a provider's key never has one.
Viewed(k, r) ==
  [r EXCEPT !.view = IF k \in McpKeys /\ ~r.dead THEN r.cred ELSE None, !.ahead = FALSE]
Set(k, r) == store' = [store EXCEPT ![k] = r]
Publish(k, r) == Set(k, Viewed(k, r))

\* LoadOAuthToken and what refresh_under_lock makes of the answer: a dead
\* grant or no material ends the refresh, a cached token may.
HandleLoad(c) ==
  LET r == store[c.key] IN
  /\ c.type = "Load"
  /\ \/ /\ r.dead \/ r.cred = None \/ r.access # 0
        /\ wk' = [wk EXCEPT ![c.w].pc = "release"]
     \/ /\ ~r.dead /\ r.cred # None
        /\ wk' = [wk EXCEPT ![c.w].pc = "exchange", ![c.w].token = r.cred]
  /\ UNCHANGED <<locked, store, single, server, events>>

\* A token the store did not take the successor of.
Lose(c, t) == lost' = [lost EXCEPT ![c.key] = IF c.token = t THEN @ ELSE @ \cup {t}]

\* refresh_token_unchanged: the stored grant is the one the refresh presented.
Unchanged(c) == store[c.key].cred = c.expected

\* Mutant: a rotation only reaches the access-token cache.
HandleSaveCachesOnly(c) ==
  LET r == store[c.key] IN
  /\ c.type = "Save"
  /\ IF locked \/ r.cred = None \/ ~Unchanged(c) THEN UNCHANGED store
     ELSE Set(c.key, [r EXCEPT !.access = c.token.g, !.dead = FALSE])
  /\ wk' = [wk EXCEPT ![c.w].pc = "release"]
  /\ UNCHANGED <<locked, single, server, events>>

HandleSave(c) ==
  LET r == store[c.key] IN
  /\ c.type = "Save"
  /\ \/ /\ locked \/ r.cred = None
        /\ Lose(c, c.expected) /\ UNCHANGED <<store, events>>
     \/ /\ ~locked /\ r.cred # None /\ ~Unchanged(c)
        /\ UNCHANGED <<store, lost, events>>
     \/ /\ ~locked /\ r.cred # None /\ Unchanged(c) /\ c.token # r.cred
        /\ Event /\ Lose(c, c.expected) /\ UNCHANGED store
     \/ /\ ~locked /\ r.cred # None /\ Unchanged(c)
        /\ Set(c.key, [r EXCEPT !.cred = c.token, !.blob = c.token,
                                !.access = c.token.g, !.dead = FALSE])
        /\ UNCHANGED <<lost, events>>
  /\ wk' = [wk EXCEPT ![c.w].pc = "release"]
  /\ UNCHANGED <<locked, single, live, grants, exchanges>>

HandleMarkDead(c) ==
  LET r == store[c.key] IN
  /\ c.type = "MarkDead"
  /\ Set(c.key, IF r.dead THEN r ELSE [r EXCEPT !.dead = TRUE, !.access = 0])
  /\ UNCHANGED <<locked, wk, single, server, events>>

\* Mutant: a dropped save leaves the view as it is.
HandleOAuthSaveSilent(c) ==
  LET r == store[c.key] IN
  /\ c.type = "OAuthSave"
  /\ IF locked \/ r.cred = None \/ ~Unchanged(c) THEN UNCHANGED store
     ELSE Publish(c.key, [r EXCEPT !.cred = c.token, !.blob = c.token, !.access = 0,
                                   !.dead = FALSE])
  /\ UNCHANGED <<locked, wk, single, server, events>>

\* Mutant: no check that the credential is still there.
HandleOAuthSaveResurrects(c) ==
  LET r == store[c.key] IN
  /\ c.type = "OAuthSave"
  /\ IF locked \/ (r.cred # None /\ ~Unchanged(c)) THEN Publish(c.key, r)
     ELSE Publish(c.key, [r EXCEPT !.cred = c.token, !.blob = c.token, !.access = 0,
                                   !.dead = FALSE])
  /\ UNCHANGED <<locked, wk, single, server, events>>

\* handle_oauth_save: a dropped save puts the key's durable value back into
\* the view; a failed write returns before it does.
HandleOAuthSave(c) ==
  LET r == store[c.key] IN
  /\ c.type = "OAuthSave"
  /\ \/ /\ locked \/ r.cred = None \/ ~Unchanged(c)
        /\ Publish(c.key, r) /\ Lose(c, c.spent)
        /\ UNCHANGED <<registry, events>>
     \/ /\ ~locked /\ r.cred # None /\ Unchanged(c)
        /\ Event /\ Lose(c, c.spent) /\ Set(c.key, [r EXCEPT !.ahead = TRUE])
        /\ UNCHANGED registry
     \/ /\ ~locked /\ r.cred # None /\ Unchanged(c)
        /\ Publish(c.key, [r EXCEPT !.cred = c.token, !.blob = c.token,
                                    !.access = 0, !.dead = FALSE])
        /\ registry' = Retained /\ UNCHANGED <<lost, events>>
  /\ UNCHANGED <<locked, wk, free, live, grants, exchanges>>

Removed(r) == [r EXCEPT !.cred = None, !.blob = None, !.access = 0, !.dead = FALSE]

HandleOAuthClear(c) ==
  /\ c.type = "OAuthClear"
  /\ \/ Publish(c.key, Removed(store[c.key])) /\ registry' = Retained /\ UNCHANGED events
     \/ Event /\ Set(c.key, [store[c.key] EXCEPT !.ahead = TRUE]) /\ UNCHANGED registry
  /\ UNCHANGED <<locked, wk, free, server>>

HandleAuthRejected(c) ==
  LET r == store[c.key] IN
  /\ c.type = "AuthRejected"
  /\ IF r.dead THEN UNCHANGED store ELSE Publish(c.key, [r EXCEPT !.dead = TRUE])
  /\ UNCHANGED <<locked, wk, single, server, events>>

Handle ==
  /\ queue # <<>> /\ queue' = Tail(queue)
  /\ LET c == Head(queue) IN
     \/ HandleLoad(c) \/ HandleSave(c) \/ HandleMarkDead(c)
     \/ HandleOAuthSave(c) \/ HandleOAuthClear(c) \/ HandleAuthRejected(c)

-----------------------------------------------------------------------------
(* The command loop: the clients' commands, and crashes.                   *)

\* A sign-in has obtained a new grant; a locked keystore refuses it.
SaveCredential(k) ==
  LET t == [g |-> grants[k] + 1, n |-> 0] IN
  /\ Event /\ ~locked /\ grants[k] < MaxGrants
  /\ grants' = [grants EXCEPT ![k] = @ + 1]
  /\ live' = [live EXCEPT ![k] = @ \cup {t}]
  /\ Publish(k, [store[k] EXCEPT !.cred = t, !.blob = t, !.access = 0, !.dead = FALSE])
  /\ UNCHANGED <<locked, queue, wk, single, lost, exchanges>>

RemoveCredential(k) ==
  /\ Event /\ store[k].blob # None
  /\ Publish(k, Removed(store[k]))
  /\ UNCHANGED <<locked, queue, wk, single, server>>

Wiped(r) == [r EXCEPT !.cred = None, !.access = 0, !.dead = FALSE]

Lock ==
  /\ Event
  /\ locked' = TRUE
  /\ store' = [k \in Keys |-> Viewed(k, Wiped(store[k]))]
  /\ UNCHANGED <<queue, wk, single, server>>

\* Also of a daemon that is not locked.  The quarantine is left as it is.
Unlock ==
  /\ Event /\ locked' = FALSE
  /\ store' = [k \in Keys |-> Viewed(k, [store[k] EXCEPT !.cred = store[k].blob])]
  /\ queue' = [i \in DOMAIN queue |-> IF queue[i].type = "OAuthSave"
                                      THEN [queue[i] EXCEPT !.alone = FALSE] ELSE queue[i]]
  /\ UNCHANGED <<wk, single, server>>

\* Rotations that only the process knew of.
Unsaved(k) ==
  {c.spent : c \in {d \in {queue[i] : i \in DOMAIN queue} \cup
                          UNION {{wk[w].out[i] : i \in DOMAIN wk[w].out} : w \in Workers} :
                    d.type = "OAuthSave" /\ d.key = k}}
  \cup {wk[w].token : w \in {v \in Workers : wk[v].key = k /\ wk[v].pc = "saving"}}

Crash ==
  /\ Event
  /\ locked' = TRUE /\ queue' = <<>>
  /\ store' = [k \in Keys |-> [Wiped(store[k]) EXCEPT !.view = None, !.ahead = FALSE]]
  /\ wk' = [w \in Workers |-> Idle(wk[w].key)]
  /\ registry' = [k \in Keys |-> 0] /\ free' = {}
  /\ lost' = [k \in Keys |-> lost[k] \cup Unsaved(k)]
  /\ UNCHANGED <<live, grants, exchanges>>

-----------------------------------------------------------------------------
Step(w) ==
  \/ TakeLock(w) \/ Release(w) \/ Prune(w) \/ ExchangeFails(w)
  \/ ProviderRefreshed(w) \/ ProviderRejected(w)
  \/ AdapterLoads(w) \/ AdapterRefreshed(w) \/ AdapterRejected(w)
  \/ AdapterPublishes(w) \/ AdapterSends(w)

\* Bound: a key no worker serves keeps its grant.
Served == {wk[w].key : w \in Workers}

Next ==
  \/ \E w \in Workers : Step(w) \/ Acquire(w) \/ AdapterClears(w) \/ AdapterReplaced(w)
  \/ Handle
  \/ \E k \in Served : SaveCredential(k) \/ RemoveCredential(k) \/ Revoke(k)
  \/ Lock \/ Unlock \/ Crash

Spec == Init /\ [][Next]_vars

-----------------------------------------------------------------------------
(* Properties.                                                             *)

Commands == [type : {"Load"}, key : Keys, w : Workers]
  \cup [type : {"Save"}, key : Keys, w : Workers, token : Tokens, expected : Tokens]
  \cup [type : {"MarkDead", "OAuthClear", "AuthRejected"}, key : Keys]
  \cup [type : {"OAuthSave"}, key : Keys, token : Tokens, expected : Tokens,
        spent : Tokens, alone : BOOLEAN]
Pcs == {"idle", "wait", "load", "loading", "exchange", "saving", "publish", "send",
        "release", "prune"}

\* Every variable of the keystore, the workers and the registry has its type, and
\* a worker between two refreshes holds no lock.
TypeOK ==
  /\ locked \in BOOLEAN
  /\ store \in [Keys -> [cred : Tokens, blob : Tokens, access : 0..MaxGrants,
                         dead : BOOLEAN, view : Tokens, ahead : BOOLEAN]]
  /\ \A i \in DOMAIN queue : queue[i] \in Commands
  /\ \A w \in Workers : /\ wk[w].key \in Keys /\ wk[w].pc \in Pcs
                        /\ wk[w].handle \in Locks \cup {0}
                        /\ {wk[w].token, wk[w].seed, wk[w].cache} \subseteq Tokens
                        /\ wk[w].out = <<>> \/ wk[w].out[1] \in Commands
                        /\ wk[w].pc \in {"idle", "prune"} => wk[w].handle = 0
  /\ registry \in [Keys -> Locks \cup {0}] /\ free \subseteq Locks
  /\ live \in [Keys -> SUBSET Tokens] /\ lost \in [Keys -> SUBSET Tokens]
  /\ grants \in [Keys -> 1..MaxGrants]

Holding == {"load", "loading", "exchange", "saving", "publish", "send", "release"}
Holder(w) == wk[w].handle # 0 /\ wk[w].pc \in Holding

\* One refresh of a credential at a time, whichever engines run them: in no
\* well-typed state has prune dropped a lock that is held or waited for, so no
\* second lock of the key is minted (oauth_refresh_locks.rs: guard pin, prune_map).
SingleFlight ==
  /\ TypeOK
  /\ \A v, w \in Workers : Holder(v) /\ Holder(w) /\ wk[v].key = wk[w].key => v = w

Publishing(k) == {w \in Workers : wk[w].key = k /\ wk[w].pc \in {"publish", "send"}}
Saving(k) == Saves(k) # {} \/ \E w \in Publishing(k) : wk[w].out[1].type = "OAuthSave"

\* Memory, disk, the access-token cache and the server agree on one grant.  No
\* token enters the credential map whose blob was not written, and a locked
\* daemon has neither credential nor access token; the access token was minted
\* from the stored grant, also when a sign-in replaced it during the refresh;
\* and the grant at rest is one the server still honours, unless a named fault
\* took its successor.
OneLiveGrant ==
  \A k \in Keys : LET r == store[k] IN
    /\ IF locked THEN r.cred = None /\ r.access = 0 ELSE r.cred = r.blob
    /\ r.access # 0 => r.access = r.cred.g /\ ~r.dead
    /\ r.blob # None /\ ~Saving(k) => r.blob \in live[k] \cup lost[k]

\* refresh_single_flight presents a token only once: the load is under the lock
\* and its loser sees the winner's rotation.
ProviderPresentsLive ==
  \A w \in Workers : wk[w].pc = "exchange" /\ wk[w].key \in ProviderKeys =>
    wk[w].token \in live[wk[w].key] \cup lost[wk[w].key]

Quiet(k) == Publishing(k) = {} /\ \A i \in DOMAIN queue : queue[i].key # k
AloneInQueue(k, i) == \A j \in DOMAIN queue : queue[j].key = k => j = i

\* The read view of an MCP credential.  What a locked daemon still shows is a
\* rotation whose save is on its way, and which that save takes back; when
\* nothing of a key is on its way its view is the durable grant, or nothing when
\* that is quarantined (only a failed write leaves it apart); and a rotation
\* shown and not yet durable stays shown while its save waits alone: another
\* key's command does not put the spent token back.
ReadViewIsSound ==
  /\ \A k \in Keys : locked /\ store[k].view # None => Saving(k)
  /\ \A k \in McpKeys : Quiet(k) /\ ~store[k].ahead => store[k] = Viewed(k, store[k])
  /\ \A k \in McpKeys : \A i \in Saves(k) :
       LET c == queue[i] IN
       AloneInQueue(k, i) /\ Publishing(k) = {} /\ c.alone /\ ~locked /\ Unchanged(c)
         => store[k].view \in {c.token, None}

\* The operator's word stands: a refresh of an older grant never replaces a
\* newer sign-in's blob (provider accounts, handle_save_oauth_token's guard), and
\* a removed credential comes back by a new sign-in only, never by a save that
\* was on its way when the user signed out.
SignInsAreKept ==
  [][/\ \A k \in ProviderKeys : store'[k].blob # None => store'[k].blob.g >= store[k].blob.g
     /\ \A k \in Keys : store[k].blob = None /\ store'[k].blob # None =>
          grants'[k] > grants[k]]_vars

=============================================================================
