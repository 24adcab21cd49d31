---------------------------- MODULE RegistryProofs ----------------------------
(* The theorems of Registry, for every set of accounts, tokens and requests,   *)
(* and for pushes that are lost and that overtake each other.                  *)
EXTENDS Registry, TLAPS, FiniteSetTheorems, WellFoundedInduction

(* A request that was made is about an account of the directory, and about  *)
(* a token of that account; so is every token that appeared.                *)
Made == /\ \A q \in Req :
             /\ request[q].at # "none" => request[q].slug \in Slug /\ Known(request[q].slug)
             /\ request[q].at = "none" => request[q].slug = Absent /\ request[q].token = Absent
             /\ request[q].token # Absent => request[q].slug = TokenSlug[request[q].token]
        /\ \A t \in Token : tokens[t] # "none" => Known(TokenSlug[t])

(* A request is on its way once at most.                                    *)
Once == \A s \in Slug : \A p, o \in wire[s] : p.req = o.req => p = o

(* Pushes are numbered as they are made, and only accounts of the directory *)
(* have any; the one in force was delivered.                                *)
Numbered == \A s \in Slug :
              /\ \A p \in wire[s] : p.no <= sent[s] /\ p.no > 0
              /\ held[s] <= seen[s] /\ seen[s] <= sent[s]
              /\ held[s] > 0 => config[s] # Absent
              /\ sent[s] > 0 => Known(s)

(* The newest push of an account, on its way or in force, holds what the    *)
(* registry holds, unless another is still to be made.                      *)
Told(s) == /\ sent[s] > 0
           /\ \A q \in Req : request[q].slug = s => request[q].at \notin {"mint", "push"}
Newest(s) == /\ \A p \in wire[s] : p.no = sent[s] => p.config = configFor(s)
             /\ held[s] = sent[s] => config[s] = configFor(s)
Current == \A s \in Slug : Told(s) => Newest(s)

(* Whatever still carries a token that was revoked is older than a push on  *)
(* its way of a request about that token, or than one that has arrived.     *)
Gone(t) == tokens[t] = "revoked" /\ \A q \in Req : request[q].token = t => request[q].at \in {"sent", "ok"}
Outrun(t) == {no \in Nat : \/ \E p \in wire[TokenSlug[t]] : p.no > no /\ request[p.req].token = t
                           \/ no < seen[TokenSlug[t]]}
Superseded(t) == /\ \A p \in wire[TokenSlug[t]] : t \in p.config.hashes => p.no \in Outrun(t)
                 /\ t \in apiHashes(TokenSlug[t]) => held[TokenSlug[t]] \in Outrun(t)
Stale == \A t \in Token : Gone(t) => Superseded(t)

(* The inductive invariant. *)
Inv == TypeOK /\ Made /\ Once /\ Numbered /\ Current /\ Stale

--------------------------------------------------------------------------
(* What each step does                                                     *)

LEMMA Entered == /\ \A e \in Entry : e # Absent
                 /\ \A c \in Config : c # Absent
BY RegistryAssumption DEF Entry, Config

\* A request as it is made: it enters or changes one account, or a token of it,
\* and is to be followed by a push, unless it has changed nothing.
Asks(q, s) ==
  /\ request[q].at = "none" /\ q \in Req /\ s \in Slug
  /\ \E at \in {"mint", "push", "ok"}, t \in Token \cup {Absent} :
       /\ request' = [request EXCEPT ![q] = [at |-> at, slug |-> s, token |-> t]]
       /\ t # Absent => TokenSlug[t] = s
       /\ at = "ok" => UNCHANGED <<accounts, tokens>>
       /\ \A u \in Token : /\ tokens'[u] # tokens[u] => u = t /\ at = "push"
                           /\ tokens'[u] # "none" => tokens[u] # "none"
  /\ accounts' \in [Slug -> Entry \cup {Absent}] /\ accounts'[s] # Absent
  /\ \A r \in Slug \ {s} : accounts'[r] = accounts[r]
  /\ tokens' \in [Token -> {"none", "live", "revoked"}]
  /\ UNCHANGED <<config, wire, boot, order>>

LEMMA TokenKnown ==
  ASSUME Inv, NEW t \in Token, tokens[t] # "none"
  PROVE  TokenSlug[t] \in Slug /\ Known(TokenSlug[t])
BY RegistryAssumption DEF Inv, Made

LEMMA FirstSteps ==
  ASSUME Inv, NEW q \in Req,
         \/ \E s \in Slug, limit \in Limits : createAccount(q, s, limit) \/ patchLimits(q, s, limit)
         \/ \E s \in Slug, active \in BOOLEAN : setStatus(q, s, active)
         \/ \E t \in Token : \/ mintSignup(q, t) \/ createToken(q, t)
                             \/ revokeToken(q, t) \/ restoreOwnToken(q, t)
  PROVE  \E s \in Slug : Asks(q, s)
<1> USE RegistryAssumption, Entered DEF New, Goes, Elsewhere
<1>1. /\ accounts \in [Slug -> Entry \cup {Absent}] /\ tokens \in [Token -> {"none", "live", "revoked"}]
      /\ Absent \notin Token
  BY DEF Inv, TypeOK
<1>2. ASSUME NEW s \in Slug, NEW limit \in Limits, createAccount(q, s, limit) PROVE Asks(q, s)
  <2>1. [limit |-> limit, active |-> TRUE] \in Entry
    BY DEF Entry
  <2> QED BY <1>1, <1>2, <2>1 DEF createAccount, Asks
<1>3. ASSUME NEW s \in Slug, NEW limit \in Limits, patchLimits(q, s, limit) PROVE Asks(q, s)
  <2>1. accounts[s] \in Entry
    BY <1>1, <1>3 DEF patchLimits, Known
  <2>2. [accounts[s] EXCEPT !.limit = limit] \in Entry
    BY <2>1 DEF Entry
  <2> QED BY <1>1, <1>3, <2>2 DEF patchLimits, Asks
<1>4. ASSUME NEW s \in Slug, NEW active \in BOOLEAN, setStatus(q, s, active) PROVE Asks(q, s)
  <2>1. accounts[s] \in Entry
    BY <1>1, <1>4 DEF setStatus, Known
  <2>2. [accounts[s] EXCEPT !.active = active] \in Entry
    BY <2>1 DEF Entry
  <2> QED BY <1>1, <1>4, <2>2 DEF setStatus, Asks
<1>5. ASSUME NEW t \in Token, mintSignup(q, t) PROVE Asks(q, TokenSlug[t])
  <2>1. [limit |-> SignupLimit, active |-> TRUE] \in Entry
    BY DEF Entry
  <2> QED BY <1>1, <1>5, <2>1 DEF mintSignup, Known, Asks
<1>6. ASSUME NEW t \in Token, createToken(q, t) PROVE Asks(q, TokenSlug[t])
  BY <1>1, <1>6 DEF createToken, Fresh, Known, Asks
<1>7. ASSUME NEW t \in Token, revokeToken(q, t) PROVE Asks(q, TokenSlug[t])
  <2>1. Known(TokenSlug[t])
    BY <1>7, TokenKnown DEF revokeToken
  <2>2. CASE tokens[t] = "live"
    BY <1>1, <1>7, <2>1, <2>2 DEF revokeToken, Known, Asks
  <2>3. CASE tokens[t] = "revoked"
    <3>1. tokens' = tokens
      BY <1>1, <1>7, <2>3 DEF revokeToken
    <3> QED BY <1>1, <1>7, <2>1, <2>3, <3>1 DEF revokeToken, Known, Asks
  <2> QED BY <1>7, <2>2, <2>3 DEF revokeToken
<1>8. ASSUME NEW t \in Token, restoreOwnToken(q, t) PROVE Asks(q, TokenSlug[t])
  <2>1. Known(TokenSlug[t])
    BY <1>8, TokenKnown DEF restoreOwnToken
  <2>2. CASE tokens[t] = "revoked"
    BY <1>1, <1>8, <2>1, <2>2 DEF restoreOwnToken, Known, Asks
  <2>3. CASE tokens[t] = "live"
    <3>1. tokens' = tokens
      BY <1>1, <1>8, <2>3 DEF restoreOwnToken
    <3> QED BY <1>1, <1>8, <2>1, <2>3, <3>1 DEF restoreOwnToken, Known, Asks
  <2> QED BY <1>8, <2>2, <2>3 DEF restoreOwnToken
<1> QED BY <1>2, <1>3, <1>4, <1>5, <1>6, <1>7, <1>8

\* The request that a step takes further, its account and token kept.
Further(q, at) ==
  /\ request' \in [Req -> Request] /\ request'[q].at = at
  /\ \A p \in Req : /\ request'[p].slug = request[p].slug /\ request'[p].token = request[p].token
                    /\ p # q => request'[p] = request[p]

LEMMA GoesFurther ==
  ASSUME TypeOK, NEW q \in Req, NEW at \in {"push", "sent", "ok", "failed"}, At(q, at), request[q].at # "none"
  PROVE  Further(q, at)
<1>1. request \in [Req -> Request]
  BY DEF TypeOK
<1> QED BY <1>1 DEF At, Request, Further

\* mint: the token of the request appears.
Appears(q) ==
  /\ request[q].at = "mint" /\ Further(q, "push")
  /\ tokens' \in [Token -> {"none", "live", "revoked"}]
  /\ \A t \in Token : tokens'[t] # tokens[t] => request[q].token = t /\ tokens'[t] = "live"
  /\ UNCHANGED <<accounts, config, wire, boot, order>>

LEMMA MintAppears ==
  ASSUME Inv, NEW q \in Req, mint(q)
  PROVE  Appears(q)
<1>1. Further(q, "push")
  BY GoesFurther DEF mint, Inv
<1>2. tokens \in [Token -> {"none", "live", "revoked"}]
  BY DEF Inv, TypeOK
<1> QED BY <1>1, <1>2 DEF mint, Elsewhere, Appears

\* pushConfig: the newest push, with what the registry holds now.
Composes(q, s, p) ==
  /\ request[q].at = "push" /\ request[q].slug = s /\ Further(q, "sent") /\ Known(s)
  /\ p \in Push /\ p.req = q /\ p.no = sent[s] + 1 /\ p.config = configFor(s)
  /\ wire' = [wire EXCEPT ![s] = @ \cup {p}] /\ sent' = [sent EXCEPT ![s] = @ + 1]
  /\ UNCHANGED <<accounts, tokens, config, boot, held, seen>>

LEMMA PushComposes ==
  ASSUME Inv, NEW q \in Req, pushConfig(q)
  PROVE  \E s \in Slug : \E p \in Push : Composes(q, s, p)
<1> DEFINE s == request[q].slug
           c == [configFor(s) EXCEPT !.hashes = configFor(s).hashes]
           p == [req |-> q, no |-> sent[s] + 1, config |-> c]
<1>1. s \in Slug /\ Known(s) /\ Further(q, "sent") /\ request[q].at = "push"
  BY GoesFurther DEF pushConfig, Inv, Made
<1>2. c = configFor(s) /\ c \in Config
  <2>1. accounts[s] \in Entry
    BY <1>1 DEF Inv, TypeOK, Known
  <2>2. configFor(s) \in Config
    BY <2>1 DEF configFor, Entry, Config
  <2> QED BY <2>2 DEF Config
<1>3. p \in Push
  BY <1>1, <1>2 DEF Inv, TypeOK, Push
<1>4. /\ wire' = [wire EXCEPT ![s] = @ \cup {p}] /\ sent' = [sent EXCEPT ![s] = @ + 1]
      /\ UNCHANGED <<accounts, tokens, config, boot, held, seen>>
  BY DEF pushConfig, Sends
<1>5. Composes(q, s, p)
  <2> HIDE DEF s, c
  <2> QED BY <1>1, <1>2, <1>3, <1>4 DEF Composes, s
<1> QED BY <1>1, <1>3, <1>5

\* configure and Lose: a push leaves, delivered or not.
Leaves(s, p) ==
  /\ p \in wire[s] /\ p \in Push /\ request[p.req].at = "sent" /\ request[p.req].slug = s
  /\ wire' = [wire EXCEPT ![s] = @ \ {p}]
  /\ UNCHANGED <<accounts, tokens, boot, sent>>
Lands(s, p) ==
  /\ Leaves(s, p) /\ Further(p.req, "ok")
  /\ config' = [config EXCEPT ![s] = p.config] /\ held' = [held EXCEPT ![s] = p.no]
  /\ seen' = [seen EXCEPT ![s] = IF p.no > @ THEN p.no ELSE @]
Fails(s, p) ==
  /\ Leaves(s, p) /\ Further(p.req, "failed")
  /\ UNCHANGED <<config, held, seen>>

LEMMA PushLeaves ==
  ASSUME Inv, NEW s \in Slug, NEW p \in wire[s], configure(s, p) \/ Lose(s, p)
  PROVE  Lands(s, p) \/ Fails(s, p)
<1>1. p \in Push /\ p.req \in Req /\ request[p.req].at = "sent" /\ request[p.req].slug = s
  BY DEF Inv, TypeOK, Push
<1>2. CASE configure(s, p)
  <2>1. Further(p.req, "ok")
    BY <1>1, <1>2, GoesFurther DEF configure, Arrives, Inv
  <2> QED BY <1>1, <1>2, <2>1 DEF configure, Arrives, Leaves, Lands
<1>3. CASE Lose(s, p)
  <2>1. Further(p.req, "failed")
    BY <1>1, <1>3, GoesFurther DEF Lose, Inv
  <2> QED BY <1>1, <1>3, <2>1 DEF Lose, Leaves, Fails, order
<1> QED BY <1>2, <1>3

\* The internal account: it configures itself before anything was pushed to it,
\* and enters the directory.
Boots ==
  /\ UNCHANGED <<tokens, request, wire, order>>
  /\ accounts' \in [Slug -> Entry \cup {Absent}] /\ config' \in [Slug -> Config \cup {Absent}]
  /\ boot' \in {"no", "calling", "done", "lost"}
  /\ \A s \in Slug : /\ Known(s) => accounts'[s] = accounts[s]
                     /\ \/ config'[s] = config[s]
                        \/ config[s] = Absent /\ config'[s] \in Config /\ config'[s].hashes = {}

LEMMA BootSteps ==
  ASSUME Inv, ensureBootstrap \/ reserveInternal \/ LoseBoot \/ UNCHANGED vars
  PROVE  Boots
<1>1. /\ accounts \in [Slug -> Entry \cup {Absent}] /\ config \in [Slug -> Config \cup {Absent}]
      /\ boot \in {"no", "calling", "done", "lost"} /\ Internal \in Slug
  BY RegistryAssumption DEF Inv, TypeOK
<1>2. CASE ensureBootstrap
  <2>1. [limit |-> InternalLimit, active |-> TRUE, hashes |-> {}] \in Config
    BY RegistryAssumption DEF Config
  <2> QED BY <1>1, <1>2, <2>1 DEF ensureBootstrap, Boots
<1>3. CASE reserveInternal
  <2>1. [limit |-> InternalLimit, active |-> TRUE] \in Entry
    BY RegistryAssumption DEF Entry
  <2> QED BY <1>1, <1>3, <2>1 DEF reserveInternal, Known, Boots
<1>4. CASE LoseBoot \/ UNCHANGED vars
  BY <1>1, <1>4 DEF LoseBoot, vars, Boots
<1> QED BY <1>2, <1>3, <1>4

\* Every step is one of these.
LEMMA Steps ==
  ASSUME Inv, [Next]_vars
  PROVE  \/ \E q \in Req, s \in Slug : Asks(q, s)
         \/ \E q \in Req : Appears(q)
         \/ \E q \in Req, s \in Slug, p \in Push : Composes(q, s, p)
         \/ \E s \in Slug : \E p \in wire[s] : Lands(s, p) \/ Fails(s, p)
         \/ Boots
BY FirstSteps, BootSteps, MintAppears, PushComposes, PushLeaves DEF Next

--------------------------------------------------------------------------
(* Types, and what requests and pushes are about                           *)

Basic == TypeOK /\ Made /\ Once /\ Numbered

LEMMA AsksBasic ==
  ASSUME Inv, NEW q \in Req, NEW s \in Slug, Asks(q, s)
  PROVE  Basic'
<1>1. PICK at \in {"mint", "push", "ok"}, t \in Token \cup {Absent} :
        /\ request' = [request EXCEPT ![q] = [at |-> at, slug |-> s, token |-> t]]
        /\ t # Absent => TokenSlug[t] = s
        /\ \A u \in Token : /\ tokens'[u] # tokens[u] => u = t /\ at = "push"
                            /\ tokens'[u] # "none" => tokens[u] # "none"
  BY DEF Asks
<1>2. request \in [Req -> Request] /\ [at |-> at, slug |-> s, token |-> t] \in Request
  BY DEF Inv, TypeOK, Request
<1>3. /\ request' \in [Req -> Request] /\ request'[q] = [at |-> at, slug |-> s, token |-> t]
      /\ \A p \in Req \ {q} : request'[p] = request[p]
  BY <1>1, <1>2
<1>4. \A r \in Slug : Known(r) => Known(r)'
  BY DEF Asks, Known
<1>5. UNCHANGED <<wire, config, boot, sent, held, seen>> /\ request[q].at = "none"
  BY DEF Asks, order
<1>6. TypeOK'
  <2>1. \A r \in Slug : \A p \in wire[r] : p.req \in Req /\ p.req # q
    BY <1>5 DEF Inv, TypeOK, Push
  <2>2. \A r \in Slug : \A p \in wire[r] : request'[p.req] = request[p.req]
    BY <1>3, <2>1
  <2> QED BY <1>3, <1>5, <2>2 DEF Asks, Inv, TypeOK
<1>7. Once' /\ Numbered'
  BY <1>4, <1>5 DEF Inv, Once, Numbered
<1>8. Made'
  <2>1. \A u \in Token : tokens'[u] # "none" => Known(TokenSlug[u])'
    BY <1>1, <1>4, RegistryAssumption DEF Inv, Made
  <2>2. ASSUME NEW p \in Req
        PROVE  /\ request'[p].at # "none" => request'[p].slug \in Slug /\ accounts'[request'[p].slug] # Absent
               /\ request'[p].at = "none" => request'[p].slug = Absent /\ request'[p].token = Absent
               /\ request'[p].token # Absent => request'[p].slug = TokenSlug[request'[p].token]
    <3>1. CASE p = q
      BY <1>1, <1>3, <3>1 DEF Asks
    <3>2. CASE p # q
      BY <1>3, <1>4, <3>2 DEF Inv, Made, Known
    <3> QED BY <3>1, <3>2
  <2> QED BY <2>1, <2>2 DEF Made, Known
<1> QED BY <1>6, <1>7, <1>8 DEF Basic

\* Made does not depend on how far requests are, once they were made.
LEMMA MadeKept ==
  ASSUME Inv, NEW q \in Req, NEW at, request[q].at # "none", at # "none", Further(q, at),
         UNCHANGED accounts, \A t \in Token : tokens'[t] # tokens[t] => request[q].token = t
  PROVE  Made'
<1>1. \A t \in Token : tokens'[t] # "none" => Known(TokenSlug[t])'
  <2> SUFFICES ASSUME NEW t \in Token, tokens'[t] # "none" PROVE accounts[TokenSlug[t]] # Absent
    BY DEF Known
  <2>1. CASE tokens'[t] = tokens[t]
    BY <2>1 DEF Inv, Made, Known
  <2>2. CASE request[q].token = t
    BY <2>2, RegistryAssumption DEF Inv, Made, Known
  <2> QED BY <2>1, <2>2
<1>2. ASSUME NEW p \in Req
      PROVE  /\ request'[p].at # "none" => request'[p].slug \in Slug /\ accounts'[request'[p].slug] # Absent
             /\ request'[p].at = "none" => request'[p].slug = Absent /\ request'[p].token = Absent
             /\ request'[p].token # Absent => request'[p].slug = TokenSlug[request'[p].token]
  <2>1. request[p].at # "none" \/ p # q
    OBVIOUS
  <2> QED BY <2>1 DEF Inv, Made, Known, Further
<1> QED BY <1>1, <1>2 DEF Made, Known

LEMMA MintBasic ==
  ASSUME Inv, NEW q \in Req, Appears(q)
  PROVE  Basic'
<1>1. Made'
  BY MadeKept DEF Appears
<1>2. Once' /\ Numbered'
  BY DEF Appears, order, Inv, Once, Numbered, Known
<1>3. \A s \in Slug : \A p \in wire[s] : p.req \in Req /\ request'[p.req] = request[p.req]
  BY DEF Appears, Further, Inv, TypeOK, Push
<1>4. TypeOK'
  BY <1>3 DEF Appears, Further, order, Inv, TypeOK
<1> QED BY <1>1, <1>2, <1>4 DEF Basic

LEMMA ComposesBasic ==
  ASSUME Inv, NEW q \in Req, NEW s \in Slug, NEW p \in Push, Composes(q, s, p)
  PROVE  Basic'
<1>1. Made'
  BY MadeKept DEF Composes
<1>2. /\ wire \in [Slug -> SUBSET Push] /\ sent \in [Slug -> Nat] /\ held \in [Slug -> Nat]
      /\ seen \in [Slug -> Nat]
      /\ \A r \in Slug : \A o \in wire[r] : o \in Push /\ o.req \in Req /\ o.no \in Nat
                                            /\ request[o.req].at = "sent" /\ request[o.req].slug = r
  BY DEF Inv, TypeOK, Push
<1>3. /\ wire'[s] = wire[s] \cup {p} /\ sent'[s] = sent[s] + 1
      /\ \A r \in Slug \ {s} : wire'[r] = wire[r] /\ sent'[r] = sent[r]
  BY <1>2 DEF Composes
<1>4. \A r \in Slug : \A o \in wire[r] : o.req # q /\ request'[o.req] = request[o.req]
  BY <1>2 DEF Composes, Further
<1>5. TypeOK'
  <2>1. wire' \in [Slug -> SUBSET Push] /\ sent' \in [Slug -> Nat]
    BY <1>2 DEF Composes
  <2>2. \A r \in Slug : \A o \in wire'[r] : request'[o.req].at = "sent" /\ request'[o.req].slug = r
    BY <1>2, <1>3, <1>4 DEF Composes, Further
  <2> QED BY <2>1, <2>2 DEF Composes, Further, Inv, TypeOK
<1>6. Once'
  BY <1>3, <1>4 DEF Composes, Inv, Once
<1>7. Numbered'
  <2> SUFFICES ASSUME NEW r \in Slug
               PROVE  /\ \A o \in wire'[r] : o.no <= sent'[r] /\ o.no > 0
                      /\ held[r] <= seen[r] /\ seen[r] <= sent'[r]
                      /\ held[r] > 0 => config[r] # Absent
                      /\ sent'[r] > 0 => Known(r)
    BY DEF Composes, Numbered, Known
  <2>1. /\ \A o \in wire[r] : o.no <= sent[r] /\ o.no > 0
        /\ held[r] <= seen[r] /\ seen[r] <= sent[r]
        /\ held[r] > 0 => config[r] # Absent
        /\ sent[r] > 0 => Known(r)
    BY DEF Inv, Numbered
  <2>2. CASE r # s
    BY <1>3, <2>1, <2>2
  <2>3. CASE r = s
    <3>1. p.no = sent[s] + 1 /\ Known(s)
      BY DEF Composes
    <3>2. \A o \in wire'[r] : o.no <= sent'[r] /\ o.no > 0
      BY <1>2, <1>3, <2>1, <2>3, <3>1
    <3> QED BY <1>2, <1>3, <2>1, <2>3, <3>1, <3>2
  <2> QED BY <2>2, <2>3
<1> QED BY <1>1, <1>5, <1>6, <1>7 DEF Basic

LEMMA LeavesBasic ==
  ASSUME Inv, NEW s \in Slug, NEW p \in wire[s], Lands(s, p) \/ Fails(s, p)
  PROVE  Basic'
<1>1. /\ wire \in [Slug -> SUBSET Push] /\ sent \in [Slug -> Nat] /\ held \in [Slug -> Nat]
      /\ seen \in [Slug -> Nat] /\ config \in [Slug -> Config \cup {Absent}]
      /\ \A r \in Slug : \A o \in wire[r] : o \in Push /\ o.req \in Req /\ o.no \in Nat /\ o.config \in Config
                                            /\ request[o.req].at = "sent" /\ request[o.req].slug = r
  BY DEF Inv, TypeOK, Push
<1>2. /\ Leaves(s, p) /\ wire' = [wire EXCEPT ![s] = @ \ {p}]
      /\ Further(p.req, "ok") \/ Further(p.req, "failed")
  BY DEF Lands, Fails, Leaves
<1>3. wire'[s] = wire[s] \ {p} /\ \A r \in Slug \ {s} : wire'[r] = wire[r]
  BY <1>1, <1>2
<1>4. Made'
  BY <1>1, <1>2, MadeKept DEF Leaves
<1>5. Once'
  BY <1>3 DEF Inv, Once
<1>6. \A r \in Slug : \A o \in wire'[r] : o.req # p.req /\ request'[o.req] = request[o.req]
  <2> SUFFICES ASSUME NEW r \in Slug, NEW o \in wire'[r] PROVE o.req # p.req /\ request'[o.req] = request[o.req]
    OBVIOUS
  <2>1. o \in wire[r] /\ (r = s => o # p)
    BY <1>3
  <2>2. o.req # p.req
    BY <1>1, <2>1 DEF Inv, Once
  <2> QED BY <1>1, <1>2, <2>1, <2>2 DEF Further
<1>7. TypeOK'
  <2>1. wire' \in [Slug -> SUBSET Push] /\ request' \in [Req -> Request]
    BY <1>1, <1>2 DEF Further
  <2>2. \A r \in Slug : \A o \in wire'[r] : request'[o.req].at = "sent" /\ request'[o.req].slug = r
    BY <1>1, <1>3, <1>6
  <2>3. config' \in [Slug -> Config \cup {Absent}] /\ held' \in [Slug -> Nat] /\ seen' \in [Slug -> Nat]
    BY <1>1 DEF Lands, Fails
  <2> QED BY <2>1, <2>2, <2>3, <1>2 DEF Leaves, Inv, TypeOK
<1>8. Numbered'
  <2> SUFFICES ASSUME NEW r \in Slug
               PROVE  /\ \A o \in wire'[r] : o.no <= sent[r] /\ o.no > 0
                      /\ held'[r] <= seen'[r] /\ seen'[r] <= sent[r]
                      /\ held'[r] > 0 => config'[r] # Absent
                      /\ sent[r] > 0 => Known(r)
    BY <1>2 DEF Leaves, Numbered, Known
  <2>1. /\ \A o \in wire[r] : o.no <= sent[r] /\ o.no > 0
        /\ held[r] <= seen[r] /\ seen[r] <= sent[r]
        /\ held[r] > 0 => config[r] # Absent
        /\ sent[r] > 0 => Known(r)
    BY DEF Inv, Numbered
  <2>2. CASE Fails(s, p) \/ r # s
    <3>1. held'[r] = held[r] /\ seen'[r] = seen[r] /\ config'[r] = config[r]
      BY <1>1, <2>2 DEF Lands, Fails
    <3> QED BY <1>3, <2>1, <3>1
  <2>3. CASE Lands(s, p) /\ r = s
    <3>1. /\ held'[r] = p.no /\ config'[r] = p.config /\ p.config # Absent /\ p.no \in Nat
          /\ seen'[r] = IF p.no > seen[r] THEN p.no ELSE seen[r]
      BY <1>1, <2>3, Entered DEF Lands
    <3> QED BY <1>1, <1>3, <2>1, <2>3, <3>1
  <2> QED BY <2>2, <2>3
<1> QED BY <1>4, <1>5, <1>7, <1>8 DEF Basic

LEMMA BootsBasic ==
  ASSUME Inv, Boots
  PROVE  Basic'
<1>1. \A s \in Slug : /\ Known(s) => Known(s)'
                      /\ config[s] # Absent => config'[s] # Absent
  BY Entered DEF Boots, Known
<1>2. UNCHANGED <<tokens, request, wire, sent, held, seen>>
  BY DEF Boots, order
<1>3. Made'
  BY <1>1, <1>2, RegistryAssumption DEF Inv, Made
<1>4. Once' /\ Numbered'
  BY <1>1, <1>2 DEF Inv, Once, Numbered
<1>5. TypeOK'
  BY <1>2 DEF Boots, Inv, TypeOK
<1> QED BY <1>3, <1>4, <1>5 DEF Basic

LEMMA BasicStep ==
  ASSUME Inv, [Next]_vars
  PROVE  Basic'
BY Steps, AsksBasic, MintBasic, ComposesBasic, LeavesBasic, BootsBasic

--------------------------------------------------------------------------
(* The newest push                                                         *)

\* What a step leaves of an account it is not about.
LEMMA ElsewhereCurrent ==
  ASSUME Inv, NEW r \in Slug, accounts'[r] = accounts[r], config'[r] = config[r], wire'[r] = wire[r],
         sent'[r] = sent[r], held'[r] = held[r],
         \A u \in Token : TokenSlug[u] = r => tokens'[u] = tokens[u],
         \A p \in Req : \/ request'[p] = request[p]
                        \/ request'[p].slug # r /\ request[p].slug # r
  PROVE  Told(r)' => Newest(r)'
<1> SUFFICES ASSUME Told(r)' PROVE Newest(r)'
  OBVIOUS
<1>1. Told(r)
  BY DEF Told
<1>2. configFor(r)' = configFor(r)
  BY DEF configFor
<1> QED BY <1>1, <1>2 DEF Newest, Inv, Current

LEMMA AsksCurrent ==
  ASSUME Inv, NEW q \in Req, NEW s \in Slug, Asks(q, s)
  PROVE  Current'
<1>1. PICK at \in {"mint", "push", "ok"}, t \in Token \cup {Absent} :
        /\ request' = [request EXCEPT ![q] = [at |-> at, slug |-> s, token |-> t]]
        /\ t # Absent => TokenSlug[t] = s
        /\ at = "ok" => UNCHANGED <<accounts, tokens>>
        /\ \A u \in Token : tokens'[u] # tokens[u] => u = t
  BY DEF Asks
<1>2. /\ request'[q] = [at |-> at, slug |-> s, token |-> t]
      /\ \A p \in Req \ {q} : request'[p] = request[p]
      /\ request[q].slug = Absent /\ UNCHANGED <<config, wire, sent, held, seen>>
  <2>1. request \in [Req -> Request]
    BY DEF Inv, TypeOK
  <2>2. request[q].at = "none" /\ UNCHANGED <<config, wire, sent, held, seen>>
    BY DEF Asks, order
  <2> QED BY <1>1, <2>1, <2>2 DEF Inv, Made
<1> SUFFICES ASSUME NEW r \in Slug, Told(r)' PROVE Newest(r)'
  BY DEF Current
<1>3. CASE r # s
  <2>1. \A u \in Token : TokenSlug[u] = r => tokens'[u] = tokens[u]
    BY <1>1, <1>3, RegistryAssumption
  <2>2. request'[q].slug # r /\ request[q].slug # r
    BY <1>2, <1>3, RegistryAssumption
  <2> QED BY <1>2, <1>3, <2>1, <2>2, ElsewhereCurrent DEF Asks
<1>4. CASE r = s
  <2>1. at = "ok"
    BY <1>2, <1>4 DEF Told
  <2>2. Told(r)
    BY <1>2, RegistryAssumption DEF Told
  <2>3. configFor(r)' = configFor(r)
    BY <1>1, <2>1 DEF configFor
  <2> QED BY <1>2, <2>2, <2>3 DEF Inv, Current, Newest
<1> QED BY <1>3, <1>4

LEMMA MintCurrent ==
  ASSUME Inv, NEW q \in Req, Appears(q)
  PROVE  Current'
<1> SUFFICES ASSUME NEW r \in Slug, Told(r)' PROVE Newest(r)'
  BY DEF Current
<1>1. request[q].slug # r /\ request'[q].slug # r
  BY DEF Told, Appears, Further
<1>2. \A u \in Token : TokenSlug[u] = r => tokens'[u] = tokens[u]
  BY <1>1, RegistryAssumption DEF Appears, Inv, Made
<1> QED BY <1>1, <1>2, ElsewhereCurrent DEF Appears, Further, order

LEMMA ComposesCurrent ==
  ASSUME Inv, NEW q \in Req, NEW s \in Slug, NEW p \in Push, Composes(q, s, p)
  PROVE  Current'
<1>1. /\ wire \in [Slug -> SUBSET Push] /\ sent \in [Slug -> Nat] /\ held \in [Slug -> Nat]
      /\ seen \in [Slug -> Nat] /\ \A o \in wire[s] : o.no \in Nat
  BY DEF Inv, TypeOK, Push
<1>2. /\ wire'[s] = wire[s] \cup {p} /\ sent'[s] = sent[s] + 1
      /\ \A r \in Slug \ {s} : wire'[r] = wire[r] /\ sent'[r] = sent[r]
  BY <1>1 DEF Composes
<1> SUFFICES ASSUME NEW r \in Slug, Told(r)' PROVE Newest(r)'
  BY DEF Current
<1>3. CASE r # s
  BY <1>2, <1>3, ElsewhereCurrent DEF Composes, Further
<1>4. CASE r = s
  <2>1. configFor(s)' = configFor(s)
    BY DEF Composes, configFor
  <2>2. \A o \in wire[s] : o.no # sent'[s]
    BY <1>1, <1>2 DEF Inv, Numbered
  <2>3. held[s] # sent'[s]
    BY <1>1, <1>2 DEF Inv, Numbered
  <2>4. p.config = configFor(s) /\ held' = held
    BY DEF Composes
  <2> QED BY <1>2, <1>4, <2>1, <2>2, <2>3, <2>4 DEF Newest
<1> QED BY <1>3, <1>4

LEMMA LeavesCurrent ==
  ASSUME Inv, NEW s \in Slug, NEW p \in wire[s], Lands(s, p) \/ Fails(s, p)
  PROVE  Current'
<1>1. /\ wire \in [Slug -> SUBSET Push] /\ config \in [Slug -> Config \cup {Absent}]
      /\ held \in [Slug -> Nat] /\ p.req \in Req
  BY DEF Inv, TypeOK, Push
<1>2. /\ wire'[s] = wire[s] \ {p} /\ \A r \in Slug \ {s} : wire'[r] = wire[r]
      /\ \A r \in Slug : configFor(r)' = configFor(r) /\ sent'[r] = sent[r]
      /\ UNCHANGED <<accounts, tokens>>
      /\ Further(p.req, "ok") \/ Further(p.req, "failed")
      /\ request[p.req].at = "sent" /\ request[p.req].slug = s
  BY <1>1 DEF Lands, Fails, Leaves, configFor
<1>3. \A r \in Slug \ {s} : config'[r] = config[r] /\ held'[r] = held[r]
  BY <1>1 DEF Lands, Fails
<1> SUFFICES ASSUME NEW r \in Slug, Told(r)' PROVE Newest(r)'
  BY DEF Current
<1>4. Told(r)
  BY <1>2 DEF Told, Further
<1>5. Newest(r)
  BY <1>4 DEF Inv, Current
<1>6. CASE r # s
  BY <1>2, <1>3, <1>5, <1>6 DEF Newest
<1>7. CASE r = s
  <2>1. \A o \in wire'[r] : o.no = sent'[r] => o.config = configFor(r)'
    BY <1>2, <1>5, <1>7 DEF Newest
  <2>2. CASE Lands(s, p)
    <3>1. config'[s] = p.config /\ held'[s] = p.no
      BY <1>1, <2>2 DEF Lands
    <3> QED BY <1>2, <1>5, <1>7, <2>1, <3>1 DEF Newest
  <2>3. CASE Fails(s, p)
    BY <1>2, <1>5, <2>1, <2>3 DEF Fails, Newest
  <2> QED BY <2>1, <2>2, <2>3
<1> QED BY <1>6, <1>7

LEMMA BootsCurrent ==
  ASSUME Inv, Boots
  PROVE  Current'
<1> SUFFICES ASSUME NEW r \in Slug, Told(r)' PROVE Newest(r)'
  BY DEF Current
<1>1. UNCHANGED <<tokens, request, wire, sent, held, seen>>
  BY DEF Boots, order
<1>2. Told(r) /\ sent[r] \in Nat /\ held[r] \in Nat
  BY <1>1 DEF Told, Inv, TypeOK
<1>3. Newest(r) /\ Known(r) /\ sent[r] > 0
  BY <1>2 DEF Inv, Current, Numbered, Told
<1>4. accounts'[r] = accounts[r]
  BY <1>3 DEF Boots
<1>5. configFor(r)' = configFor(r)
  BY <1>1, <1>4 DEF configFor
<1>6. held[r] = sent[r] => config'[r] = config[r]
  BY <1>2, <1>3 DEF Boots, Inv, Numbered
<1> QED BY <1>1, <1>3, <1>5, <1>6 DEF Newest

LEMMA CurrentStep ==
  ASSUME Inv, [Next]_vars
  PROVE  Current'
BY Steps, AsksCurrent, MintCurrent, ComposesCurrent, LeavesCurrent, BootsCurrent

--------------------------------------------------------------------------
(* Tokens that were revoked                                                *)

(* What a step leaves of a token when every push that outran another is     *)
(* still on its way, or has arrived.                                        *)
LEMMA StillSuperseded ==
  ASSUME Inv, NEW t \in Token, Superseded(t), NEW s \in Slug, s = TokenSlug[t],
         wire'[s] \subseteq wire[s], seen'[s] \in Nat, seen[s] <= seen'[s],
         \A p \in wire[s] : /\ request'[p.req].token = request[p.req].token
                            /\ p \in wire'[s] \/ p.no <= seen'[s] \/ request[p.req].token # t,
         \/ apiHashes(s)' \subseteq apiHashes(s) /\ held'[s] = held[s]
         \/ \E p \in wire[s] : apiHashes(s)' \subseteq p.config.hashes /\ held'[s] = p.no
  PROVE  Superseded(t)'
<1>1. /\ seen[s] \in Nat /\ held[s] \in Nat /\ \A p \in wire[s] : p.no \in Nat
  BY DEF Inv, TypeOK, Push
<1>2. ASSUME NEW no \in Nat, no \in Outrun(t) PROVE no \in Outrun(t)'
  <2>1. CASE no < seen[s]
    BY <1>1, <2>1 DEF Outrun
  <2>2. CASE \E p \in wire[s] : p.no > no /\ request[p.req].token = t
    <3>1. PICK p \in wire[s] : p.no > no /\ request[p.req].token = t
      BY <2>2
    <3>2. p \in wire'[s] \/ no < seen'[s]
      BY <1>1, <3>1
    <3> QED BY <3>1, <3>2 DEF Outrun
  <2> QED BY <1>2, <2>1, <2>2 DEF Outrun
<1>3. /\ \A p \in wire[s] : t \in p.config.hashes => p.no \in Outrun(t)
      /\ t \in apiHashes(s) => held[s] \in Outrun(t)
  BY DEF Superseded
<1>4. \A p \in wire'[s] : t \in p.config.hashes => p.no \in Outrun(t)'
  BY <1>1, <1>2, <1>3
<1>5. t \in apiHashes(s)' => held'[s] \in Outrun(t)'
  <2>1. CASE apiHashes(s)' \subseteq apiHashes(s) /\ held'[s] = held[s]
    BY <1>1, <1>2, <1>3, <2>1
  <2>2. CASE \E p \in wire[s] : apiHashes(s)' \subseteq p.config.hashes /\ held'[s] = p.no
    BY <1>1, <1>2, <1>3, <2>2
  <2> QED BY <2>1, <2>2
<1> QED BY <1>4, <1>5 DEF Superseded

LEMMA AsksStale ==
  ASSUME Inv, NEW q \in Req, NEW s \in Slug, Asks(q, s)
  PROVE  Stale'
<1> SUFFICES ASSUME NEW t \in Token, Gone(t)' PROVE Superseded(t)'
  BY DEF Stale
<1>1. /\ UNCHANGED <<config, wire, seen, held>> /\ request[q].at = "none"
      /\ \A p \in Req \ {q} : request'[p] = request[p]
  BY DEF Asks, order, Inv, TypeOK
<1>2. Gone(t)
  <2>1. PICK at \in {"mint", "push", "ok"}, u \in Token \cup {Absent} :
          /\ request' = [request EXCEPT ![q] = [at |-> at, slug |-> s, token |-> u]]
          /\ \A v \in Token : tokens'[v] # tokens[v] => v = u /\ at = "push"
    BY DEF Asks
  <2>2. request'[q] = [at |-> at, slug |-> s, token |-> u]
    BY <2>1 DEF Inv, TypeOK
  <2>3. tokens'[t] = tokens[t]
    BY <2>1, <2>2 DEF Gone
  <2>4. request[q].token # t
    BY <1>1, RegistryAssumption DEF Inv, Made
  <2> QED BY <1>1, <2>3, <2>4 DEF Gone
<1>3. Superseded(t) /\ TokenSlug[t] \in Slug
  BY <1>2, RegistryAssumption DEF Inv, Stale
<1>4. \A p \in wire[TokenSlug[t]] : request'[p.req].token = request[p.req].token
  BY <1>1, <1>3 DEF Inv, TypeOK, Push
<1>5. apiHashes(TokenSlug[t])' = apiHashes(TokenSlug[t])
  BY <1>1 DEF apiHashes
<1>6. seen[TokenSlug[t]] \in Nat
  BY <1>3 DEF Inv, TypeOK
<1> QED BY <1>1, <1>3, <1>4, <1>5, <1>6, StillSuperseded

LEMMA MintStale ==
  ASSUME Inv, NEW q \in Req, Appears(q)
  PROVE  Stale'
<1> SUFFICES ASSUME NEW t \in Token, Gone(t)' PROVE Superseded(t)'
  BY DEF Stale
<1>1. UNCHANGED <<config, wire, seen, held>>
  BY DEF Appears, order
<1>2. Gone(t)
  BY DEF Gone, Appears, Further
<1>3. Superseded(t) /\ TokenSlug[t] \in Slug
  BY <1>2, RegistryAssumption DEF Inv, Stale
<1>4. \A p \in wire[TokenSlug[t]] : request'[p.req].token = request[p.req].token
  BY <1>3 DEF Appears, Further, Inv, TypeOK, Push
<1>5. apiHashes(TokenSlug[t])' = apiHashes(TokenSlug[t])
  BY <1>1 DEF apiHashes
<1>6. seen[TokenSlug[t]] \in Nat
  BY <1>3 DEF Inv, TypeOK
<1> QED BY <1>1, <1>3, <1>4, <1>5, <1>6, StillSuperseded

\* The new push carries no token that was revoked; if it is of a request about
\* the token it outruns all others.
LEMMA ComposesStale ==
  ASSUME Inv, NEW q \in Req, NEW s \in Slug, NEW p \in Push, Composes(q, s, p)
  PROVE  Stale'
<1> SUFFICES ASSUME NEW t \in Token, Gone(t)' PROVE Superseded(t)'
  BY DEF Stale
<1> DEFINE r == TokenSlug[t]
<1>1. /\ r \in Slug /\ wire \in [Slug -> SUBSET Push] /\ sent \in [Slug -> Nat]
      /\ held[r] \in Nat /\ seen[r] \in Nat
      /\ \A o \in wire[r] : o.no \in Nat /\ o.req \in Req
  BY RegistryAssumption DEF Inv, TypeOK, Push
<1>2. /\ wire'[s] = wire[s] \cup {p} /\ \A x \in Slug \ {s} : wire'[x] = wire[x]
      /\ UNCHANGED <<config, held, seen, tokens>>
  BY <1>1 DEF Composes
<1>3. \A o \in Req : request'[o].token = request[o].token /\ request'[q].at = "sent" /\ p.req = q
  BY DEF Composes, Further
<1>4. t \notin p.config.hashes
  BY DEF Composes, configFor, Gone
<1>5. apiHashes(r)' = apiHashes(r)
  BY <1>2 DEF apiHashes
<1>6. CASE request[q].token = t
  <2>1. r = s
    BY <1>6, RegistryAssumption DEF Composes, Inv, Made
  <2>2. p \in wire'[r] /\ p.no = sent[r] + 1 /\ request'[p.req].token = t
    BY <1>2, <1>3, <1>6, <2>1 DEF Composes
  <2>3. \A no \in Nat : no <= sent[r] => no \in Outrun(t)'
    BY <1>1, <2>2 DEF Outrun
  <2>4. held[r] <= sent[r] /\ \A o \in wire[r] : o.no <= sent[r]
    BY <1>1 DEF Inv, Numbered
  <2>5. \A o \in wire'[r] : o = p \/ o \in wire[r]
    BY <1>2, <2>1
  <2>6. \A o \in wire'[r] : t \in o.config.hashes => o.no \in Outrun(t)'
    BY <1>1, <1>4, <2>3, <2>4, <2>5
  <2>7. held'[r] \in Outrun(t)'
    BY <1>1, <1>2, <2>3, <2>4
  <2> QED BY <2>6, <2>7 DEF Superseded
<1>7. CASE request[q].token # t
  <2>1. Gone(t)
    BY <1>7 DEF Gone, Composes, Further
  <2>2. Superseded(t)
    BY <2>1 DEF Inv, Stale
  <2>3. wire[r] \subseteq wire'[r] /\ \A o \in wire'[r] : o = p \/ o \in wire[r]
    BY <1>1, <1>2
  <2>4. ASSUME NEW no, no \in Outrun(t) PROVE no \in Outrun(t)'
    BY <1>1, <1>2, <1>3, <2>3, <2>4 DEF Outrun
  <2>5. \A o \in wire'[r] : t \in o.config.hashes => o.no \in Outrun(t)'
    BY <1>4, <2>2, <2>3, <2>4 DEF Superseded
  <2>6. t \in apiHashes(r)' => held'[r] \in Outrun(t)'
    BY <1>2, <1>5, <2>2, <2>4 DEF Superseded
  <2> QED BY <2>5, <2>6 DEF Superseded
<1> QED BY <1>6, <1>7

LEMMA LeavesStale ==
  ASSUME Inv, NEW s \in Slug, NEW p \in wire[s], Lands(s, p) \/ Fails(s, p)
  PROVE  Stale'
<1> SUFFICES ASSUME NEW t \in Token, Gone(t)' PROVE Superseded(t)'
  BY DEF Stale
<1> DEFINE r == TokenSlug[t]
<1>1. /\ r \in Slug /\ wire \in [Slug -> SUBSET Push] /\ config \in [Slug -> Config \cup {Absent}]
      /\ held \in [Slug -> Nat] /\ seen \in [Slug -> Nat] /\ p.req \in Req /\ p.no \in Nat
      /\ p.config \in Config /\ \A o \in wire[r] : o.no \in Nat /\ o.req \in Req
  BY RegistryAssumption DEF Inv, TypeOK, Push
<1>2. /\ wire'[s] = wire[s] \ {p} /\ \A x \in Slug \ {s} : wire'[x] = wire[x]
      /\ tokens' = tokens /\ request[p.req].at = "sent"
      /\ Further(p.req, "ok") \/ Further(p.req, "failed")
  BY <1>1 DEF Lands, Fails, Leaves
<1>3. Gone(t)
  BY <1>2 DEF Gone, Further
<1>4. Superseded(t)
  BY <1>3 DEF Inv, Stale
<1>5. wire'[r] \subseteq wire[r] /\ \A o \in wire[r] : request'[o.req].token = request[o.req].token
  BY <1>1, <1>2 DEF Further
<1>6. CASE Lands(s, p)
  <2>1. seen'[r] \in Nat /\ seen[r] <= seen'[r] /\ (r = s => p.no <= seen'[r])
    BY <1>1, <1>6 DEF Lands
  <2>2. \A o \in wire[r] : o \in wire'[r] \/ o.no <= seen'[r]
    BY <1>1, <1>2, <2>1
  <2>3. \/ apiHashes(r)' \subseteq apiHashes(r) /\ held'[r] = held[r]
        \/ \E o \in wire[r] : apiHashes(r)' \subseteq o.config.hashes /\ held'[r] = o.no
    <3>1. CASE r = s
      <4>1. config'[r] = p.config /\ held'[r] = p.no /\ p.config # Absent
        BY <1>1, <1>6, <3>1, Entered DEF Lands
      <4> QED BY <3>1, <4>1 DEF apiHashes
    <3>2. CASE r # s
      BY <1>1, <1>6, <3>2 DEF Lands, apiHashes
    <3> QED BY <3>1, <3>2
  <2> QED BY <1>1, <1>4, <1>5, <2>1, <2>2, <2>3, StillSuperseded
<1>7. CASE Fails(s, p)
  <2>1. request[p.req].token # t
    BY <1>1, <1>7 DEF Fails, Further, Gone
  <2>2. \A o \in wire[r] : o \in wire'[r] \/ request[o.req].token # t
    BY <1>1, <1>2, <2>1
  <2>3. seen'[r] = seen[r] /\ held'[r] = held[r] /\ apiHashes(r)' = apiHashes(r)
    BY <1>7 DEF Fails, apiHashes
  <2> QED BY <1>1, <1>4, <1>5, <2>2, <2>3, StillSuperseded
<1> QED BY <1>6, <1>7

LEMMA BootsStale ==
  ASSUME Inv, Boots
  PROVE  Stale'
<1> SUFFICES ASSUME NEW t \in Token, Gone(t)' PROVE Superseded(t)'
  BY DEF Stale
<1>1. UNCHANGED <<tokens, request, wire, sent, held, seen>>
  BY DEF Boots, order
<1>2. Superseded(t) /\ TokenSlug[t] \in Slug
  BY <1>1, RegistryAssumption DEF Gone, Inv, Stale
<1>3. apiHashes(TokenSlug[t])' \subseteq apiHashes(TokenSlug[t]) /\ seen[TokenSlug[t]] \in Nat
  BY <1>2, Entered DEF Boots, apiHashes, Inv, TypeOK
<1> QED BY <1>1, <1>2, <1>3, StillSuperseded

LEMMA StaleStep ==
  ASSUME Inv, [Next]_vars
  PROVE  Stale'
BY Steps, AsksStale, MintStale, ComposesStale, LeavesStale, BootsStale

--------------------------------------------------------------------------
(* The theorems                                                            *)

LEMMA InitHolds == Init => Inv
<1> SUFFICES ASSUME Init PROVE Inv
  OBVIOUS
<1> USE RegistryAssumption DEF Init
<1>1. TypeOK
  BY DEF TypeOK, Request
<1>2. Made /\ Once /\ Numbered
  BY DEF Made, Once, Numbered
<1>3. Current /\ Stale
  BY DEF Current, Told, Stale, Gone
<1> QED BY <1>1, <1>2, <1>3 DEF Inv

LEMMA InvHolds == Spec => []Inv
<1>1. Inv /\ [Next]_vars => Inv'
  BY BasicStep, CurrentStep, StaleStep DEF Inv, Basic
<1> QED BY <1>1, InitHolds, PTL DEF Spec

(* Directory, tokens, requests and configurations are what they are        *)
(* declared to be; a push on its way is the push of a request about that   *)
(* account which awaits it.                                                *)
THEOREM TypeCorrect == Spec => []TypeOK
<1>1. Inv => TypeOK
  BY DEF Inv
<1> QED BY <1>1, InvHolds, PTL

(* An account whose newest push arrived after every other holds what the   *)
(* registry holds for it, once no change waits for its push: whatever was  *)
(* lost before and in whatever order requests and older pushes came.       *)
THEOREM Converges == Spec => []Converged
<1>1. ASSUME Inv PROVE Converged
  BY <1>1 DEF Converged, Settled, Inv, Current, Told, Newest
<1> QED BY <1>1, InvHolds, PTL

(* A revocation that was answered has reached the account, unless a request *)
(* about the token is under way or failed, or an older push is in force.    *)
THEOREM RevocationReaches == Spec => []RevokedOut
<1>1. ASSUME Inv PROVE RevokedOut
  <2> SUFFICES ASSUME NEW t \in Token, tokens[t] = "revoked", ~ Overtaken(TokenSlug[t]),
                      \A q \in Req : request[q].token = t => request[q].at = "ok"
               PROVE  t \notin apiHashes(TokenSlug[t])
    BY DEF RevokedOut
  <2>1. TokenSlug[t] \in Slug
    BY RegistryAssumption
  <2>2. Superseded(t)
    BY <1>1 DEF Inv, Stale, Gone
  <2>3. held[TokenSlug[t]] \notin Outrun(t)
    <3>1. ~ (held[TokenSlug[t]] < seen[TokenSlug[t]])
      BY DEF Overtaken
    <3>2. \A p \in wire[TokenSlug[t]] : request[p.req].token # t
      BY <1>1, <2>1 DEF Inv, TypeOK, Push
    <3> QED BY <3>1, <3>2 DEF Outrun
  <2> QED BY <2>2, <2>3 DEF Superseded
<1> QED BY <1>1, InvHolds, PTL

--------------------------------------------------------------------------
(* Sums over sets of accounts.  allocated is a fold; the recursive function *)
(* in it is unfolded once, in AllocatedIsSum, and SubsetInduction, about a  *)
(* set of sets instead of a formula, carries what is said about sums.       *)

(* A set that has each subset of S whose own strict subsets it has, has all. *)
LEMMA SubsetInduction ==
  ASSUME NEW S, IsFiniteSet(S), NEW P,
         \A T \in SUBSET S : (\A U \in SUBSET T : U # T => U \in P) => T \in P
  PROVE  SUBSET S \subseteq P
<1> DEFINE R == StrictSubsetOrdering(S)
           B == (SUBSET S) \ P
<1>1. SUFFICES ASSUME B # {} PROVE FALSE
  OBVIOUS
<1>2. IsWellFoundedOn(R, FiniteSubsetsOf(S))
  BY FS_StrictSubsetOrderingWellFounded
<1>3. B \subseteq FiniteSubsetsOf(S)
  BY FS_Subset DEF FiniteSubsetsOf
<1>4. PICK T \in B : \A U \in B : ~ (<<U, T>> \in R)
  <2> HIDE DEF R, B
  <2> QED BY <1>1, <1>2, <1>3, WFMin
<1>5. ASSUME NEW U \in SUBSET T, U # T PROVE U \in P
  <2>1. <<U, T>> \in R
    BY <1>5 DEF StrictSubsetOrdering
  <2> QED BY <1>4, <2>1
<1> QED BY <1>4, <1>5

\* The element of T the sum takes out.
AnyOf(T) == CHOOSE x \in T : TRUE

\* The sums of f over the subsets of S.
IsSum(g, f, S) ==
  g = [T \in SUBSET S |-> IF T = {} THEN 0 ELSE f[AnyOf(T)] + g[T \ {AnyOf(T)}]]
Sums(f, S) == CHOOSE g : IsSum(g, f, S)
SumOver(f, S) == Sums(f, S)[S]

(* The two cases of the equation.                                           *)
LEMMA SumEmpty ==
  ASSUME NEW S, NEW f, NEW g, IsSum(g, f, S)
  PROVE  g[{}] = 0
<1>1. {} \in SUBSET S
  OBVIOUS
<1> QED BY <1>1 DEF IsSum

LEMMA SumStep ==
  ASSUME NEW S, NEW f, NEW g, IsSum(g, f, S), NEW T \in SUBSET S, T # {}
  PROVE  /\ AnyOf(T) \in T /\ g[T] = f[AnyOf(T)] + g[T \ {AnyOf(T)}]
         /\ T \ {AnyOf(T)} \in SUBSET T /\ T \ {AnyOf(T)} # T
<1>1. AnyOf(T) \in T
  BY DEF AnyOf
<1>2. g[T] = IF T = {} THEN 0 ELSE f[AnyOf(T)] + g[T \ {AnyOf(T)}]
  BY DEF IsSum
<1> QED BY <1>1, <1>2

(* Two such functions agree where both are defined, and on terms that agree. *)
LEMMA SumUnique ==
  ASSUME NEW S, NEW U \in SUBSET S, IsFiniteSet(S), NEW f, NEW h, NEW g, NEW k,
         IsSum(g, f, S), IsSum(k, h, U), \A x \in U : f[x] = h[x]
  PROVE  \A T \in SUBSET U : g[T] = k[T]
<1> DEFINE P == {T \in SUBSET U : g[T] = k[T]}
<1>1. ASSUME NEW T \in SUBSET U, \A V \in SUBSET T : V # T => V \in P PROVE T \in P
  <2>1. T \in SUBSET S
    OBVIOUS
  <2>2. CASE T = {}
    <3>1. g[{}] = 0 /\ k[{}] = 0
      BY SumEmpty
    <3> QED BY <2>2, <3>1
  <2>3. CASE T # {}
    <3> DEFINE x == AnyOf(T)
    <3>1. /\ x \in T /\ g[T] = f[x] + g[T \ {x}] /\ k[T] = h[x] + k[T \ {x}]
          /\ T \ {x} \in SUBSET T /\ T \ {x} # T
      BY <2>1, <2>3, SumStep
    <3>2. g[T \ {x}] = k[T \ {x}] /\ f[x] = h[x]
      BY <1>1, <3>1
    <3> QED BY <3>1, <3>2
  <2> QED BY <2>2, <2>3
<1>2. IsFiniteSet(U)
  BY FS_Subset
<1>3. SUBSET U \subseteq P
  <2> HIDE DEF P
  <2> QED BY <1>1, <1>2, SubsetInduction
<1> QED BY <1>3

(* There is such a function: it is put together from those of the strict    *)
(* subsets, which agree where they meet.                                    *)
LEMMA SumExists ==
  ASSUME NEW S, IsFiniteSet(S), NEW f
  PROVE  IsSum(Sums(f, S), f, S)
<1> DEFINE P == {T \in SUBSET S : IsSum(Sums(f, T), f, T)}
<1>1. ASSUME NEW T \in SUBSET S, \A U \in SUBSET T : U # T => U \in P PROVE T \in P
  <2> DEFINE below(U) == U \ {AnyOf(U)}
             g == [U \in SUBSET T |-> IF U = {} THEN 0 ELSE f[AnyOf(U)] + Sums(f, below(U))[below(U)]]
  <2>1. ASSUME NEW U \in SUBSET T, U # T PROVE g[U] = Sums(f, U)[U]
    <3>1. IsSum(Sums(f, U), f, U) /\ IsFiniteSet(U)
      BY <1>1, <2>1, FS_Subset
    <3>2. CASE U = {}
      BY <3>1, <3>2, SumEmpty
    <3>3. CASE U # {}
      <4> DEFINE V == below(U)
      <4>1. Sums(f, U)[U] = f[AnyOf(U)] + Sums(f, U)[V] /\ V \in SUBSET U /\ V # U /\ AnyOf(U) \in U
        BY <3>1, <3>3, SumStep
      <4>2. V # T /\ V \in SUBSET T
        BY <4>1
      <4>3. IsSum(Sums(f, V), f, V)
        BY <1>1, <4>2
      <4>4. Sums(f, U)[V] = Sums(f, V)[V]
        <5> HIDE DEF V
        <5> QED BY <3>1, <4>1, <4>3, SumUnique
      <4>5. g[U] = f[AnyOf(U)] + Sums(f, V)[V]
        BY <3>3
      <4> QED BY <4>1, <4>4, <4>5
    <3> QED BY <3>2, <3>3
  <2>2. ASSUME NEW U \in SUBSET T, U # {}
        PROVE  g[U] = f[AnyOf(U)] + g[below(U)]
    <3>1. AnyOf(U) \in U
      BY <2>2 DEF AnyOf
    <3>2. below(U) \in SUBSET T /\ below(U) # T
      BY <3>1
    <3>3. g[below(U)] = Sums(f, below(U))[below(U)]
      BY <2>1, <3>2
    <3> QED BY <2>2, <3>3
  <2>3. g = [U \in SUBSET T |-> IF U = {} THEN 0 ELSE f[AnyOf(U)] + g[below(U)]]
    <3> DEFINE k == [U \in SUBSET T |-> IF U = {} THEN 0 ELSE f[AnyOf(U)] + g[below(U)]]
    <3>1. \A U \in SUBSET T : g[U] = k[U]
      <4> SUFFICES ASSUME NEW U \in SUBSET T PROVE g[U] = k[U]
        OBVIOUS
      <4>1. CASE U = {}
        BY <4>1
      <4>2. CASE U # {}
        <5>1. g[U] = f[AnyOf(U)] + g[below(U)]
          BY <2>2, <4>2
        <5>2. k[U] = f[AnyOf(U)] + g[below(U)]
          BY <4>2
        <5> QED BY <5>1, <5>2
      <4> QED BY <4>1, <4>2
    <3> QED BY <3>1
  <2>4. IsSum(g, f, T)
    BY <2>3 DEF IsSum
  <2>5. IsSum(Sums(f, T), f, T)
    <3> HIDE DEF g
    <3> QED BY <2>4 DEF Sums
  <2> QED BY <2>5
<1>2. SUBSET S \subseteq P
  <2> HIDE DEF P
  <2> QED BY <1>1, SubsetInduction
<1> QED BY <1>2

(* A sum of natural numbers is a natural number.                            *)
LEMMA SumNat ==
  ASSUME NEW S, IsFiniteSet(S), NEW f \in [S -> Nat]
  PROVE  \A T \in SUBSET S : Sums(f, S)[T] \in Nat
<1> DEFINE g == Sums(f, S)
           P == {T \in SUBSET S : g[T] \in Nat}
<1>1. IsSum(g, f, S)
  BY SumExists
<1> HIDE DEF g
<1>2. ASSUME NEW T \in SUBSET S, \A U \in SUBSET T : U # T => U \in P PROVE T \in P
  <2>1. CASE T = {}
    <3>1. g[{}] = 0
      BY <1>1, SumEmpty
    <3> QED BY <2>1, <3>1
  <2>2. CASE T # {}
    <3>1. /\ AnyOf(T) \in T /\ g[T] = f[AnyOf(T)] + g[T \ {AnyOf(T)}]
          /\ T \ {AnyOf(T)} \in SUBSET T /\ T \ {AnyOf(T)} # T
      BY <1>1, <2>2, SumStep
    <3>2. g[T \ {AnyOf(T)}] \in Nat /\ f[AnyOf(T)] \in Nat
      BY <1>2, <3>1
    <3> QED BY <3>1, <3>2
  <2> QED BY <2>1, <2>2
<1>3. SUBSET S \subseteq P
  <2> HIDE DEF P
  <2> QED BY <1>2, SubsetInduction
<1> QED BY <1>3 DEF g

(* Any term may be taken out of a sum.                                      *)
LEMMA SumWithout ==
  ASSUME NEW S, IsFiniteSet(S), NEW f \in [S -> Nat], NEW T \in SUBSET S, NEW x \in T
  PROVE  Sums(f, S)[T] = f[x] + Sums(f, S)[T \ {x}]
<1> DEFINE g == Sums(f, S)
           P == {U \in SUBSET S : \A z \in U : g[U] = f[z] + g[U \ {z}]}
<1>1. IsSum(g, f, S)
  BY SumExists
<1>2. \A U \in SUBSET S : g[U] \in Nat
  BY SumNat
<1> HIDE DEF g
<1>3. ASSUME NEW U \in SUBSET S, \A V \in SUBSET U : V # U => V \in P, NEW z \in U
      PROVE  g[U] = f[z] + g[U \ {z}]
  <2> DEFINE y == AnyOf(U)
             V == U \ {z}
             W == U \ {y}
             Z == V \ {y}
  <2>1. /\ y \in U /\ g[U] = f[y] + g[W] /\ W \in SUBSET U /\ W # U
    <3>1. U # {}
      BY <1>3
    <3> HIDE DEF P
    <3> QED BY <1>1, <3>1, SumStep
  <2>2. CASE y = z
    BY <2>1, <2>2
  <2>3. CASE y # z
    <3>1. z \in W /\ y \in V /\ Z = W \ {z} /\ V \in SUBSET U /\ V # U /\ Z \in SUBSET S
      BY <1>3, <2>1, <2>3
    <3>2. g[W] = f[z] + g[Z]
      BY <1>3, <2>1, <3>1
    <3>3. g[V] = f[y] + g[Z]
      BY <1>3, <3>1
    <3>4. f[y] \in Nat /\ f[z] \in Nat /\ g[Z] \in Nat
      BY <1>2, <1>3, <2>1, <3>1
    <3> HIDE DEF y, V, W, Z
    <3> QED BY <2>1, <3>2, <3>3, <3>4 DEF V
  <2> QED BY <2>2, <2>3
<1>4. SUBSET S \subseteq P
  <2>1. ASSUME NEW U \in SUBSET S, \A V \in SUBSET U : V # U => V \in P PROVE U \in P
    BY <1>3, <2>1
  <2> HIDE DEF P
  <2> QED BY <2>1, SubsetInduction
<1> QED BY <1>4 DEF g

--------------------------------------------------------------------------
(* A sum of zeros.                                                          *)
LEMMA SumZero ==
  ASSUME NEW S, IsFiniteSet(S), NEW f, \A x \in S : f[x] = 0
  PROVE  SumOver(f, S) = 0
<1> DEFINE g == Sums(f, S)
           P == {T \in SUBSET S : g[T] = 0}
<1>1. IsSum(g, f, S)
  BY SumExists
<1> HIDE DEF g
<1>2. ASSUME NEW T \in SUBSET S, \A U \in SUBSET T : U # T => U \in P PROVE T \in P
  <2>1. CASE T = {}
    BY <1>1, <2>1, SumEmpty
  <2>2. CASE T # {}
    <3>1. /\ AnyOf(T) \in T /\ g[T] = f[AnyOf(T)] + g[T \ {AnyOf(T)}]
          /\ T \ {AnyOf(T)} \in SUBSET T /\ T \ {AnyOf(T)} # T
      BY <1>1, <2>2, SumStep
    <3>2. g[T \ {AnyOf(T)}] = 0 /\ f[AnyOf(T)] = 0
      BY <1>2, <3>1
    <3> QED BY <3>1, <3>2
  <2> QED BY <2>1, <2>2
<1>3. S \in P
  <2> HIDE DEF P
  <2> QED BY <1>2, SubsetInduction
<1> QED BY <1>3 DEF SumOver, g

(* A sum over part of S does not depend on the rest of it.                  *)
LEMMA SumPart ==
  ASSUME NEW S, IsFiniteSet(S), NEW T \in SUBSET S, NEW f, NEW h, \A x \in T : f[x] = h[x]
  PROVE  SumOver(h, T) = Sums(f, S)[T]
<1>1. IsFiniteSet(T) /\ T \in SUBSET T
  BY FS_Subset
<1>2. IsSum(Sums(f, S), f, S) /\ IsSum(Sums(h, T), h, T)
  BY <1>1, SumExists
<1>3. ASSUME NEW g, NEW k, IsSum(g, f, S), IsSum(k, h, T)
      PROVE  g[T] = k[T]
  BY <1>3, SumUnique
<1> QED BY <1>2, <1>3 DEF SumOver

--------------------------------------------------------------------------
(* The ceiling                                                              *)

\* What each account may use of the ceiling.
Shares == [s \in Slug |-> IF Known(s) THEN accounts[s].limit ELSE 0]

(* allocated is the sum of the shares of the other accounts.                *)
LEMMA AllocatedIsSum ==
  ASSUME NEW x
  PROVE  allocated(x) = SumOver(Shares, Slug \ {x})
<1> DEFINE S == Slug \ {x}
           next(g) == [T \in SUBSET S |-> IF T = {} THEN 0 ELSE
                  (IF Known(AnyOf(T)) THEN accounts[AnyOf(T)].limit ELSE 0) + g[T \ {AnyOf(T)}]]
           k == CHOOSE g : g = next(g)
<1>1. allocated(x) = k[S]
  BY DEF allocated, MapThenSumSet, MapThenFoldSet, AnyOf
<1>2. \A T \in SUBSET S : T # {} => AnyOf(T) \in Slug
  BY DEF AnyOf
<1>3. ASSUME NEW g
      PROVE  next(g) = [T \in SUBSET S |-> IF T = {} THEN 0 ELSE Shares[AnyOf(T)] + g[T \ {AnyOf(T)}]]
  BY <1>2 DEF Shares
<1>4. IsFiniteSet(S) /\ S \in SUBSET S
  BY RegistryAssumption, FS_Subset
<1>5. IsSum(Sums(Shares, S), Shares, S)
  BY <1>4, SumExists
<1>6. Sums(Shares, S) = next(Sums(Shares, S))
  BY <1>3, <1>5 DEF IsSum
<1>7. k = next(k)
  <2> HIDE DEF next
  <2> QED BY <1>6
<1>8. IsSum(k, Shares, S)
  <2> HIDE DEF k
  <2> QED BY <1>3, <1>7 DEF IsSum
<1>9. k[S] = Sums(Shares, S)[S]
  <2> HIDE DEF k, S
  <2> QED BY <1>4, <1>5, <1>8, SumUnique
<1> QED BY <1>1, <1>9 DEF SumOver

\* The inductive invariant: CeilingApart in terms of the shares.
Listed == accounts \in [Slug -> Entry \cup {Absent}]
Apart == Listed /\ SumOver(Shares, Slug \ {Internal}) <= Global

(* The shares are numbers that can be summed.                               *)
LEMMA SharesNat ==
  ASSUME Listed
  PROVE  Shares \in [Slug -> Nat]
BY DEF Listed, Shares, Known, Entry

(* The directory changes at s: the share of s is unchanged, or s is the     *)
(* internal account, or the new share was compared with the ceiling.        *)
LEMMA ApartKept ==
  ASSUME Apart, NEW s \in Slug, NEW e \in Entry, accounts' = [accounts EXCEPT ![s] = e],
         s = Internal \/ e.limit = Shares[s] \/ fitsGlobal(s, e.limit)
  PROVE  Apart'
<1> DEFINE S == Slug \ {Internal}
           R == S \ {s}
           g == Sums(Shares, Slug)
           h == Sums(Shares', Slug)
<1>1. Listed /\ Listed'
  BY DEF Apart, Listed
<1>2. Shares \in [Slug -> Nat] /\ Shares' \in [Slug -> Nat]
  <2>1. Shares' \in [Slug -> Nat]
    BY <1>1 DEF Listed, Shares, Known, Entry
  <2> QED BY <1>1, <2>1, SharesNat
<1>3. \A r \in Slug : Shares'[r] = IF r = s THEN e.limit ELSE Shares[r]
  BY <1>1, RegistryAssumption DEF Listed, Shares, Known, Entry
<1>4. SumOver(Shares, S) = g[S] /\ SumOver(Shares', S) = h[S]
  BY RegistryAssumption, SumPart
<1>5. ASSUME NEW T \in SUBSET Slug, \A r \in T : Shares'[r] = Shares[r] PROVE h[T] = g[T]
  <2>1. SumOver(Shares, T) = g[T]
    BY RegistryAssumption, SumPart
  <2>2. SumOver(Shares, T) = h[T]
    BY <1>5, RegistryAssumption, SumPart
  <2> QED BY <2>1, <2>2
<1>6. g[S] <= Global
  BY <1>4 DEF Apart
<1>7. CASE s = Internal \/ e.limit = Shares[s]
  <2>1. \A r \in S : Shares'[r] = Shares[r]
    BY <1>3, <1>7
  <2>2. h[S] = g[S]
    BY <1>5, <2>1
  <2> QED BY <1>1, <1>4, <1>6, <2>2 DEF Apart
<1>8. CASE s # Internal /\ fitsGlobal(s, e.limit)
  <2> DEFINE O == Slug \ {s}
  <2>1. SumOver(Shares, O) + e.limit <= Global
    BY <1>8, AllocatedIsSum DEF fitsGlobal
  <2>2. SumOver(Shares, O) = g[O]
    BY RegistryAssumption, SumPart
  <2>3. ASSUME NEW f \in [Slug -> Nat], NEW T \in SUBSET Slug, NEW x \in T
        PROVE  Sums(f, Slug)[T] = f[x] + Sums(f, Slug)[T \ {x}]
    BY RegistryAssumption, SumWithout
  <2>4. g[O] = Shares[Internal] + g[R]
    <3>1. Internal \in O /\ O \in SUBSET Slug /\ O \ {Internal} = R
      BY <1>8, RegistryAssumption
    <3> HIDE DEF O, R, g
    <3>2. Sums(Shares, Slug)[O] = Shares[Internal] + Sums(Shares, Slug)[O \ {Internal}]
      BY <1>2, <2>3, <3>1
    <3> QED BY <3>1, <3>2 DEF g
  <2>5. h[S] = Shares'[s] + h[R]
    <3>1. s \in S /\ S \in SUBSET Slug /\ S \ {s} = R
      BY <1>8
    <3> HIDE DEF S, R, h
    <3>2. Sums(Shares', Slug)[S] = Shares'[s] + Sums(Shares', Slug)[S \ {s}]
      BY <1>2, <2>3, <3>1
    <3> QED BY <3>1, <3>2 DEF h
  <2>6. h[R] = g[R]
    BY <1>3, <1>5
  <2>7. Shares'[s] = e.limit /\ e.limit \in Nat /\ Shares[Internal] \in Nat
    BY <1>2, <1>3, RegistryAssumption DEF Entry
  <2>8. g[R] \in Nat
    BY <1>2, RegistryAssumption, SumNat
  <2> HIDE DEF g, h, S, R, O
  <2> QED BY <1>1, <1>4, <2>1, <2>2, <2>4, <2>5, <2>6, <2>7, <2>8, RegistryAssumption DEF Apart, S
<1> QED BY <1>7, <1>8

(* Every step keeps the shares apart.  A request that enters an account or  *)
(* sets a limit compares the sum with the ceiling in the step that puts the *)
(* entry, before anything is awaited.                                       *)
LEMMA ApartStep ==
  ASSUME Apart, [Next]_vars
  PROVE  Apart'
<1> USE RegistryAssumption
<1>1. Listed
  BY DEF Apart
<1>2. ASSUME NEW q \in Req, NEW s \in Slug, NEW limit \in Limits, createAccount(q, s, limit) PROVE Apart'
  <2> DEFINE e == [limit |-> limit, active |-> TRUE]
  <2>1. e \in Entry /\ e.limit = limit
    BY DEF Entry
  <2>2. accounts' = [accounts EXCEPT ![s] = e] /\ fitsGlobal(s, limit)
    BY <1>2 DEF createAccount
  <2> HIDE DEF e
  <2> QED BY <2>1, <2>2, ApartKept
<1>3. ASSUME NEW q \in Req, NEW s \in Slug, NEW limit \in Limits, patchLimits(q, s, limit) PROVE Apart'
  <2> DEFINE e == [accounts[s] EXCEPT !.limit = limit]
  <2>1. e \in Entry /\ e.limit = limit
    BY <1>1, <1>3 DEF Entry, Listed, patchLimits, Known
  <2>2. accounts' = [accounts EXCEPT ![s] = e] /\ fitsGlobal(s, limit)
    BY <1>3 DEF patchLimits
  <2> HIDE DEF e
  <2> QED BY <2>1, <2>2, ApartKept
<1>4. ASSUME NEW q \in Req, NEW s \in Slug, NEW active \in BOOLEAN, setStatus(q, s, active) PROVE Apart'
  <2> DEFINE e == [accounts[s] EXCEPT !.active = active]
  <2>1. e \in Entry /\ e.limit = Shares[s]
    BY <1>1, <1>4 DEF Entry, Listed, setStatus, Known, Shares
  <2>2. accounts' = [accounts EXCEPT ![s] = e]
    BY <1>4 DEF setStatus
  <2> HIDE DEF e
  <2> QED BY <2>1, <2>2, ApartKept
<1>5. ASSUME NEW q \in Req, NEW t \in Token, mintSignup(q, t), ~ Known(TokenSlug[t]) PROVE Apart'
  <2> DEFINE s == TokenSlug[t]
             e == [limit |-> SignupLimit, active |-> TRUE]
  <2>1. e \in Entry /\ e.limit = SignupLimit /\ s \in Slug
    BY DEF Entry
  <2>2. accounts' = [accounts EXCEPT ![s] = e] /\ fitsGlobal(s, SignupLimit)
    BY <1>5 DEF mintSignup
  <2> HIDE DEF e, s
  <2> QED BY <2>1, <2>2, ApartKept
<1>6. ASSUME reserveInternal, ~ Known(Internal) PROVE Apart'
  <2> DEFINE e == [limit |-> InternalLimit, active |-> TRUE]
  <2>1. e \in Entry
    BY DEF Entry
  <2>2. accounts' = [accounts EXCEPT ![Internal] = e]
    BY <1>6 DEF reserveInternal
  <2> HIDE DEF e
  <2> QED BY <2>1, <2>2, ApartKept
<1>7. CASE accounts' = accounts
  <2>1. Shares' = Shares
    BY <1>7 DEF Shares, Known
  <2> QED BY <1>7, <2>1 DEF Apart, Listed
<1>8. \/ accounts' = accounts
      \/ \E q \in Req, s \in Slug, limit \in Limits : createAccount(q, s, limit) \/ patchLimits(q, s, limit)
      \/ \E q \in Req, s \in Slug, active \in BOOLEAN : setStatus(q, s, active)
      \/ \E q \in Req, t \in Token : mintSignup(q, t) /\ ~ Known(TokenSlug[t])
      \/ reserveInternal /\ ~ Known(Internal)
  BY DEF Next, vars, mintSignup, createToken, revokeToken, restoreOwnToken, mint, pushConfig,
         Sends, configure, Arrives, Lose, ensureBootstrap, reserveInternal, LoseBoot, Elsewhere
<1> QED BY <1>2, <1>3, <1>4, <1>5, <1>6, <1>7, <1>8

(* What operators and sign-ups are given stays within the global ceiling,   *)
(* for every number of accounts and in whatever order pushes arrive.        *)
THEOREM CeilingHolds == Spec => []CeilingApart
<1>1. Init => Apart
  <2> SUFFICES ASSUME Init PROVE Apart
    OBVIOUS
  <2>1. Listed /\ Shares = [s \in Slug |-> 0]
    BY DEF Init, Listed, Shares, Known
  <2>2. SumOver(Shares, Slug \ {Internal}) = 0
    BY <2>1, RegistryAssumption, FS_Subset, SumZero
  <2> QED BY <2>1, <2>2, RegistryAssumption DEF Apart
<1>2. Apart /\ [Next]_vars => Apart'
  BY ApartStep
<1>3. Apart => CeilingApart
  BY AllocatedIsSum DEF Apart, CeilingApart
<1> QED BY <1>1, <1>2, <1>3, PTL DEF Spec
=============================================================================
