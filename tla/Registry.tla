------------------------------ MODULE Registry ------------------------------
(* The management plane (src/server-cf/src/registry-do.ts): the directory  *)
(* of accounts, the tokens, and the copies of both that requests push to   *)
(* the AccountDO of each account.                                          *)
(*                                                                         *)
(* A request changes the directory or the tokens, then awaits the push of  *)
(* what they hold at that moment; other requests run in between.  Each     *)
(* push is a call of its own that carries no number, so pushes to one      *)
(* account may overtake each other.  Every change is followed at once by   *)
(* its put, so storage is not modelled apart.                              *)
EXTENDS Naturals, FiniteSets, FiniteSetsExt

CONSTANTS
  Slug,          \* accounts
  Internal,      \* INTERNAL_ACCOUNT, one of them
  Token,         \* api tokens
  TokenSlug,     \* the account of each token
  Req,           \* requests; each is made once
  Absent,        \* no entry, no token, no configuration
  Limits,        \* the limits an operator sets
  SignupLimit,   \* SIGNUP_DAY_LIMIT
  InternalLimit, \* INTERNAL_DAY_LIMIT
  Global,        \* GLOBAL_DAY_LIMIT
  MayBoot,       \* whether the internal account provisions itself
  MayLose        \* whether a call between objects may fail

ASSUME RegistryAssumption ==
  /\ IsFiniteSet(Slug) /\ Internal \in Slug /\ TokenSlug \in [Token -> Slug]
  /\ Absent \notin Slug \cup Token /\ Absent \notin [limit : Nat, active : BOOLEAN]
  /\ Absent \notin [limit : Nat, active : BOOLEAN, hashes : SUBSET Token]
  /\ Limits \subseteq Nat \ {0} /\ SignupLimit \in Nat /\ InternalLimit \in Nat /\ Global \in Nat
  /\ MayBoot \in BOOLEAN /\ MayLose \in BOOLEAN

VARIABLES
  accounts,  \* the directory
  tokens,    \* the state of each token
  config,    \* what the AccountDO of each account holds
  request,   \* how far each request is
  wire,      \* pushes on their way to each account
  boot,      \* the call of the internal account to /reserve-internal
  sent,      \* history: how many pushes were made to each account
  held,      \* history: which of them is in force there
  seen       \* history: the newest that has arrived

order == <<sent, held, seen>>
vars == <<accounts, tokens, config, request, wire, boot, order>>

Entry == [limit : Nat, active : BOOLEAN]
Config == [limit : Nat, active : BOOLEAN, hashes : SUBSET Token]
Request == [at : {"none", "mint", "push", "sent", "ok", "failed"},
            slug : Slug \cup {Absent}, token : Token \cup {Absent}]
Push == [req : Req, no : Nat, config : Config]

--------------------------------------------------------------------------
Known(s) == accounts[s] # Absent

\* allocated: the limits of every account but one.
allocated(except) ==
  MapThenSumSet(LAMBDA s : IF Known(s) THEN accounts[s].limit ELSE 0, Slug \ {except})

\* Mutant: the new limit alone compared with the ceiling.
FitsAlone(s, limit) == limit <= Global

fitsGlobal(s, limit) == allocated(s) + limit <= Global

configFor(s) ==
  [limit |-> accounts[s].limit, active |-> accounts[s].active,
   hashes |-> {t \in Token : TokenSlug[t] = s /\ tokens[t] = "live"}]

\* What the AccountDO lets register: none before its first configuration.
apiHashes(s) == IF config[s] = Absent THEN {} ELSE config[s].hashes

Init ==
  /\ accounts = [s \in Slug |-> Absent] /\ tokens = [t \in Token |-> "none"]
  /\ config = [s \in Slug |-> Absent]
  /\ request = [q \in Req |-> [at |-> "none", slug |-> Absent, token |-> Absent]]
  /\ wire = [s \in Slug |-> {}] /\ boot = "no"
  /\ sent = [s \in Slug |-> 0] /\ held = sent /\ seen = sent

--------------------------------------------------------------------------
(* The first step of each request                                          *)

New(q) == request[q].at = "none"
Goes(q, at, s, t) == request' = [request EXCEPT ![q] = [at |-> at, slug |-> s, token |-> t]]
Elsewhere == UNCHANGED <<config, wire, boot, order>>
Fresh(t) == tokens[t] = "none" /\ \A q \in Req : request[q].token # t

createAccount(q, s, limit) ==
  /\ New(q) /\ ~ Known(s) /\ fitsGlobal(s, limit)
  /\ accounts' = [accounts EXCEPT ![s] = [limit |-> limit, active |-> TRUE]]
  /\ Goes(q, "mint", s, Absent)
  /\ UNCHANGED tokens /\ Elsewhere

\* provisionAccount, then a token for this device.
mintSignup(q, t) ==
  LET s == TokenSlug[t]
  IN  /\ New(q) /\ Fresh(t)
      /\ Known(s) \/ fitsGlobal(s, SignupLimit)
      /\ accounts' = IF Known(s) THEN accounts
                     ELSE [accounts EXCEPT ![s] = [limit |-> SignupLimit, active |-> TRUE]]
      /\ Goes(q, "mint", s, t)
      /\ UNCHANGED tokens /\ Elsewhere

createToken(q, t) ==
  /\ New(q) /\ Fresh(t) /\ Known(TokenSlug[t])
  /\ Goes(q, "mint", TokenSlug[t], t)
  /\ UNCHANGED <<accounts, tokens>> /\ Elsewhere

patchLimits(q, s, limit) ==
  /\ New(q) /\ Known(s) /\ fitsGlobal(s, limit)
  /\ accounts' = [accounts EXCEPT ![s].limit = limit]
  /\ Goes(q, "push", s, Absent)
  /\ UNCHANGED tokens /\ Elsewhere

setStatus(q, s, active) ==
  /\ New(q) /\ Known(s)
  /\ accounts' = [accounts EXCEPT ![s].active = active]
  /\ Goes(q, "push", s, Absent)
  /\ UNCHANGED tokens /\ Elsewhere

\* Mutant: the token revoked, the account not told.
RevokeUntold(q, t) ==
  /\ New(q) /\ tokens[t] \in {"live", "revoked"}
  /\ tokens' = [tokens EXCEPT ![t] = "revoked"]
  /\ Goes(q, "ok", TokenSlug[t], t)
  /\ UNCHANGED accounts /\ Elsewhere

\* revokeOwnToken, revokeToken: a token revoked already is not pushed again.
revokeToken(q, t) ==
  /\ New(q) /\ tokens[t] \in {"live", "revoked"}
  /\ tokens' = [tokens EXCEPT ![t] = "revoked"]
  /\ Goes(q, IF tokens[t] = "live" THEN "push" ELSE "ok", TokenSlug[t], t)
  /\ UNCHANGED accounts /\ Elsewhere

restoreOwnToken(q, t) ==
  /\ New(q) /\ tokens[t] \in {"live", "revoked"}
  /\ tokens' = [tokens EXCEPT ![t] = "live"]
  /\ Goes(q, IF tokens[t] = "revoked" THEN "push" ELSE "ok", TokenSlug[t], t)
  /\ UNCHANGED accounts /\ Elsewhere

--------------------------------------------------------------------------
(* The rest of it                                                          *)

At(q, at) == request' = [request EXCEPT ![q].at = at]

\* mint: the token appears once it was hashed; createAccount's is a service
\* token, which no account holds.
mint(q) ==
  LET t == request[q].token
  IN  /\ request[q].at = "mint"
      /\ tokens' = IF t = Absent THEN tokens ELSE [tokens EXCEPT ![t] = "live"]
      /\ At(q, "push")
      /\ UNCHANGED accounts /\ Elsewhere

\* A push of what the registry holds for s now, with these hashes.
Sends(q, s, hashes) ==
  /\ sent' = [sent EXCEPT ![s] = @ + 1]
  /\ wire' = [wire EXCEPT ![s] = @ \cup {[req |-> q, no |-> sent[s] + 1,
                                         config |-> [configFor(s) EXCEPT !.hashes = hashes]]}]
  /\ UNCHANGED <<accounts, tokens, config, boot, held, seen>>

\* Mutant: the limits pushed, the tokens as the account holds them already.
PushLimits(q) ==
  /\ request[q].at = "push" /\ At(q, "sent")
  /\ Sends(q, request[q].slug, apiHashes(request[q].slug))

pushConfig(q) ==
  /\ request[q].at = "push" /\ At(q, "sent")
  /\ Sends(q, request[q].slug, configFor(request[q].slug).hashes)

\* The push that arrives is in force, and its request is answered.
Arrives(s, p) ==
  /\ p \in wire[s] /\ At(p.req, "ok")
  /\ config' = [config EXCEPT ![s] = p.config]
  /\ held' = [held EXCEPT ![s] = p.no]
  /\ seen' = [seen EXCEPT ![s] = IF p.no > @ THEN p.no ELSE @]
  /\ UNCHANGED <<accounts, tokens, boot, sent>>

\* Mutant: the push delivered and sent again.
ConfigureAgain(s, p) == Arrives(s, p) /\ wire' = wire

\* /configure of the AccountDO: whichever push arrives next.
configure(s, p) == Arrives(s, p) /\ wire' = [wire EXCEPT ![s] = @ \ {p}]

\* The push fails, and with it the request; nothing repeats it.
Lose(s, p) ==
  /\ MayLose /\ p \in wire[s] /\ At(p.req, "failed")
  /\ wire' = [wire EXCEPT ![s] = @ \ {p}]
  /\ UNCHANGED <<accounts, tokens, config, boot, order>>

--------------------------------------------------------------------------
(* The internal account                                                    *)

\* ensureBootstrap: the account configures itself, then tells the registry.
ensureBootstrap ==
  /\ MayBoot /\ boot = "no" /\ config[Internal] = Absent
  /\ config' = [config EXCEPT ![Internal] =
                  [limit |-> InternalLimit, active |-> TRUE, hashes |-> {}]]
  /\ boot' = "calling"
  /\ UNCHANGED <<accounts, tokens, request, wire, order>>

reserveInternal ==
  /\ boot = "calling"
  /\ \/ /\ ~ Known(Internal)
        /\ accounts' = [accounts EXCEPT ![Internal] = [limit |-> InternalLimit, active |-> TRUE]]
     \/ Known(Internal) /\ accounts' = accounts
  /\ boot' = "done"
  /\ UNCHANGED <<tokens, config, request, wire, order>>

LoseBoot ==
  /\ MayLose /\ boot = "calling" /\ boot' = "lost"
  /\ UNCHANGED <<accounts, tokens, config, request, wire, order>>

--------------------------------------------------------------------------
Next ==
  \/ \E q \in Req :
       \/ \E s \in Slug, limit \in Limits : createAccount(q, s, limit) \/ patchLimits(q, s, limit)
       \/ \E s \in Slug, active \in BOOLEAN : setStatus(q, s, active)
       \/ \E t \in Token : \/ mintSignup(q, t) \/ createToken(q, t)
                           \/ revokeToken(q, t) \/ restoreOwnToken(q, t)
       \/ mint(q) \/ pushConfig(q)
  \/ \E s \in Slug : \E p \in wire[s] : configure(s, p) \/ Lose(s, p)
  \/ ensureBootstrap \/ reserveInternal \/ LoseBoot

Spec == Init /\ [][Next]_vars

--------------------------------------------------------------------------
TypeOK ==
  /\ accounts \in [Slug -> Entry \cup {Absent}]
  /\ tokens \in [Token -> {"none", "live", "revoked"}]
  /\ config \in [Slug -> Config \cup {Absent}]
  /\ request \in [Req -> Request]
  /\ wire \in [Slug -> SUBSET Push]
  /\ \A s \in Slug : \A p \in wire[s] : request[p.req].at = "sent" /\ request[p.req].slug = s
  /\ boot \in {"no", "calling", "done", "lost"}
  /\ {sent, held, seen} \subseteq [Slug -> Nat]

(* An account whose newest push has arrived, and after every other, holds   *)
(* what the registry holds for it, whatever order requests changed that in, *)
(* whichever older pushes were lost and wherever those come in: the last to *)
(* be composed carries the changes of all.  A change whose push is still to *)
(* be made is excepted.                                                     *)
Settled(s) == /\ sent[s] > 0 /\ held[s] = sent[s]
              /\ \A q \in Req : request[q].slug = s => request[q].at \notin {"mint", "push"}
Converged == \A s \in Slug : Settled(s) => config[s] = configFor(s)

(* A revocation that was answered has reached the account: it authorizes    *)
(* the token no more.  There are two exceptions and no third: a request on  *)
(* the token is under way or failed, so that its push may be missing; or an *)
(* older push, of whatever request, arrived after a newer one and is in     *)
(* force, which may bring the token back.                                   *)
Overtaken(s) == held[s] < seen[s]
RevokedOut ==
  \A q \in Req, t \in Token :
    /\ request[q].at = "ok" /\ request[q].token = t /\ tokens[t] = "revoked"
    /\ \A p \in Req : request[p].token = t => request[p].at = "ok"
    /\ ~ Overtaken(TokenSlug[t])
    => t \notin apiHashes(TokenSlug[t])

(* What operators and sign-ups are given stays within the global ceiling,  *)
(* with the internal account counted against them: it is the only one that *)
(* can pass the ceiling.                                                   *)
CeilingApart == allocated(Internal) <= Global
=============================================================================
