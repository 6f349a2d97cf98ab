--------------------------- MODULE DelegateCache ---------------------------
(***************************************************************************)
(* How the front ends of advanced-ratelimit find the delegate that limits  *)
(* a request: resolveDelegate of token-based-ratelimit (two maps and a     *)
(* singleflight group), of llm-cost-based-ratelimit (one map of entries,   *)
(* the delegate pinned in the metadata of the request) and of              *)
(* mcp-ratelimit (LoadOrStore).  A configuration is what the delegate is   *)
(* built from, the template of the provider or the parameters; it may      *)
(* change while requests are under way.  One provider, one capability.     *)
(***************************************************************************)
EXTENDS Naturals

CONSTANTS Kinds,      \* front ends: "token", "cost", "mcp"
          Clients,    \* concurrent requests
          Nil,        \* no delegate, no request
          Configs,    \* configurations
          NoConfig,   \* no template, or no budget limits
          MaxChanges  \* how often the configuration changes

ASSUME DelegateAssumption ==
  /\ Kinds \subseteq {"token", "cost", "mcp"} /\ MaxChanges \in Nat
  /\ Nil \notin Clients /\ NoConfig \notin Configs

VARIABLES kind,      \* the front end
          config,    \* the current configuration
          changes,
          built,     \* what each delegate was built from; a delegate is named by the request that built it
          delegates, \* delegates[providerName]
          cacheKeys, \* delegateCacheKeys[providerName], or the key of the entry
          flight,    \* singleflight: the request that builds for a cache key
          user       \* the requests

delegateVars == <<kind, config, changes, built, delegates, cacheKeys, flight, user>>

Unresolved == [pc |-> "idle", config |-> NoConfig, loaded |-> Nil, delegate |-> Nil, response |-> Nil]

DelegateInit == /\ kind \in Kinds
                /\ config \in Configs
                /\ changes = 0
                /\ built = [d \in Clients |-> NoConfig]
                /\ delegates = Nil
                /\ cacheKeys = NoConfig
                /\ flight = [c \in Configs |-> Nil]
                /\ user = [r \in Clients |-> Unresolved]

At(r, pc) == user[r].pc = pc

Goto(r, pc) == user' = [user EXCEPT ![r].pc = pc]

Serve(r, d) == user' = [user EXCEPT ![r].pc = "served", ![r].delegate = d]

\* The control plane replaces the template or the parameters.
Change == /\ changes < MaxChanges
          /\ kind # "mcp"
          /\ config' \in (Configs \union {NoConfig}) \ {config}
          /\ changes' = changes + 1
          /\ UNCHANGED <<kind, built, delegates, cacheKeys, flight, user>>

\* OnRequestHeaders reads the configuration.  Without one the request is not
\* limited.
Read(r) == /\ At(r, "idle")
           /\ user' = [user EXCEPT ![r].config = config, ![r].pc = IF config = NoConfig THEN "served" ELSE "load"]
           /\ UNCHANGED <<kind, config, changes, built, delegates, cacheKeys, flight>>

---------------------------------------------------------------------------
\* token-based-ratelimit

LoadDelegate(r, from, to, miss) ==
  /\ kind = "token" /\ At(r, from)
  /\ user' = [user EXCEPT ![r].loaded = delegates, ![r].pc = IF delegates = Nil THEN miss ELSE to]
  /\ UNCHANGED <<kind, config, changes, built, delegates, cacheKeys, flight>>

\* The delegate was loaded before its key.
FastPath(r) == /\ kind = "token" /\ At(r, "key")
               /\ IF cacheKeys = user[r].config THEN Serve(r, user[r].loaded) ELSE Goto(r, "join")
               /\ UNCHANGED <<kind, config, changes, built, delegates, cacheKeys, flight>>

\* sf.Do: the first request of a cache key leads, the others wait for it.
Lead(r) == /\ At(r, "join") /\ flight[user[r].config] = Nil
           /\ flight' = [flight EXCEPT ![user[r].config] = r]
           /\ Goto(r, "recheck")
           /\ UNCHANGED <<kind, config, changes, built, delegates, cacheKeys>>

Join(r) == /\ At(r, "join") /\ flight[user[r].config] # Nil
           /\ Goto(r, "wait")
           /\ UNCHANGED <<kind, config, changes, built, delegates, cacheKeys, flight>>

\* The call ends: the leader and everybody who joined get the result.
Return(r, d) ==
  /\ flight' = [flight EXCEPT ![user[r].config] = Nil]
  /\ user' = [q \in Clients |->
       IF q = r \/ (user[q].pc = "wait" /\ user[q].config = user[r].config)
       THEN [user[q] EXCEPT !.pc = "served", !.delegate = d] ELSE user[q]]

RecheckKey(r) == /\ kind = "token" /\ At(r, "rekey")
                 /\ IF cacheKeys = user[r].config THEN Return(r, user[r].loaded)
                    ELSE Goto(r, "create") /\ UNCHANGED flight
                 /\ UNCHANGED <<kind, config, changes, built, delegates, cacheKeys>>

\* createDelegateWithTemplate and delegates.Store.
CreateToken(r) == /\ kind = "token" /\ At(r, "create")
                  /\ built' = [built EXCEPT ![r] = user[r].config]
                  /\ delegates' = r
                  /\ user' = [user EXCEPT ![r].loaded = r, ![r].pc = "storeKey"]
                  /\ UNCHANGED <<kind, config, changes, cacheKeys, flight>>

StoreKey(r) == /\ At(r, "storeKey")
               /\ cacheKeys' = user[r].config
               /\ Return(r, user[r].loaded)
               /\ UNCHANGED <<kind, config, changes, built, delegates>>

---------------------------------------------------------------------------
\* llm-cost-based-ratelimit: key and delegate are one entry; nothing keeps two
\* requests from building at once.

LoadEntry(r) == /\ kind = "cost" /\ At(r, "load")
                /\ IF delegates # Nil /\ cacheKeys = user[r].config THEN Serve(r, delegates) ELSE Goto(r, "create")
                /\ UNCHANGED <<kind, config, changes, built, delegates, cacheKeys, flight>>

CreateCost(r) == /\ kind = "cost" /\ At(r, "create")
                 /\ built' = [built EXCEPT ![r] = user[r].config]
                 /\ delegates' = r
                 /\ cacheKeys' = user[r].config
                 /\ Serve(r, r)
                 /\ UNCHANGED <<kind, config, changes, flight>>

---------------------------------------------------------------------------
\* mcp-ratelimit

LoadMcp(r) == /\ kind = "mcp" /\ At(r, "load")
              /\ IF delegates # Nil THEN Serve(r, delegates) ELSE Goto(r, "create")
              /\ UNCHANGED <<kind, config, changes, built, delegates, cacheKeys, flight>>

CreateMcp(r) == /\ kind = "mcp" /\ At(r, "create")
                /\ built' = [built EXCEPT ![r] = user[r].config]
                /\ user' = [user EXCEPT ![r].loaded = r, ![r].pc = "storeOnce"]
                /\ UNCHANGED <<kind, config, changes, delegates, cacheKeys, flight>>

StoreLast(r) == delegates' = user[r].loaded /\ Serve(r, user[r].loaded)

\* A delegate another request stored meanwhile wins.
LoadOrStore(r) == /\ delegates' = IF delegates = Nil THEN user[r].loaded ELSE delegates
                  /\ Serve(r, delegates')

StoreOnce(r) == /\ kind = "mcp" /\ At(r, "storeOnce")
                /\ LoadOrStore(r)
                /\ UNCHANGED <<kind, config, changes, built, cacheKeys, flight>>

---------------------------------------------------------------------------
\* The response phases: the delegate llm-cost-based-ratelimit pinned, else the
\* one stored now (mcp-ratelimit keeps the keys of the delegates it invoked).

DelegateOfResponse(r) ==
  IF kind = "cost" /\ user[r].delegate # Nil THEN user[r].delegate ELSE delegates

RespondWith(r) == /\ At(r, "served")
                  /\ user' = [user EXCEPT ![r].pc = "done", ![r].response = DelegateOfResponse(r)]
                  /\ UNCHANGED <<kind, config, changes, built, delegates, cacheKeys, flight>>

DelegateNext == \/ Change
                \/ \E r \in Clients :
                     \/ Read(r)
                     \/ LoadDelegate(r, "load", "key", "join")
                     \/ FastPath(r) \/ Lead(r) \/ Join(r)
                     \/ LoadDelegate(r, "recheck", "rekey", "create")
                     \/ RecheckKey(r) \/ CreateToken(r) \/ StoreKey(r)
                     \/ LoadEntry(r) \/ CreateCost(r)
                     \/ LoadMcp(r) \/ CreateMcp(r) \/ StoreOnce(r)
                     \/ RespondWith(r)

DelegateSpec == DelegateInit /\ [][DelegateNext]_delegateVars

---------------------------------------------------------------------------
\* The delegate that limits a request is of the configuration the request
\* read and stays with it through the response; while the configuration does
\* not change, token-based-ratelimit and mcp-ratelimit serve all requests with
\* one delegate.  token-based-ratelimit promises the first part only while the
\* template stays the same: it loads the delegate and its key separately.
DelegateSettled ==
  /\ (kind # "token" \/ changes = 0) =>
       \A r \in Clients : user[r].delegate # Nil =>
         /\ built[user[r].delegate] = user[r].config
         /\ user[r].pc = "done" => user[r].response = user[r].delegate
  /\ (kind # "cost" /\ changes = 0) =>
       \A r, q \in Clients : user[r].delegate # Nil /\ user[q].delegate # Nil
                                => user[r].delegate = user[q].delegate

=============================================================================
