----------------------------- MODULE TokenScopes -----------------------------
(* One token from the endpoint that issues it (specton-auth/src/main.rs) to   *)
(* the requests it is presented with (authorize, specton-registry/src/main.rs)*)
(*                                                                            *)
(* A repository string is a value of its own here: the full path              *)
(* tenant/project/name the registry compares with, a bare name, the wildcard, *)
(* the empty string, or tenant/project/ and one of the first three, as a      *)
(* docker scope names it.                                                     *)
EXTENDS Naturals, FiniteSets

CONSTANTS Repos,        \* full paths
          TokenTtl,     \* auth.token_ttl_seconds, in ticks
          CiTtl,        \* 900 s and ci_config.max_ttl_seconds, in ticks
          ExchangeTtl,  \* 300 s, in ticks
          NoToken

ReaderRole == 0
MaintainerRole == 1
AdminRole == 2
Roles == {ReaderRole, MaintainerRole, AdminRole}
Actions == {"pull", "push", "delete", "manage"}

AllowedActions(role) ==
    CASE role = AdminRole -> Actions
      [] role = MaintainerRole -> Actions \ {"manage"}
      [] OTHER -> {"pull"}
Can(role, action) == action \in AllowedActions(role)

Full(repo) == <<"full", repo>>
Name(repo) == <<"name", repo>>
Wildcard == <<"*">>
Docker(rest) == <<"docker", rest>>
Empty == <<"">>
NoAsk == [repository |-> Empty, actions |-> {}]

VARIABLES token,    \* the claims, what was asked for, and the time left
          accepted  \* the requests the registry accepted with this token

tvars == <<token, accepted>>

TokenInit == token = NoToken /\ accepted = {}

----------------------------------------------------------------------------
(* Issuing *)

Granted(role, asked) == {a \in asked : Can(role, a)}

Sign(role, ask, scopes, ttl) ==
    /\ token' = [role |-> role, ask |-> ask, scopes |-> scopes, left |-> ttl]
    /\ accepted' = {}

(* post_token: the caller's repository string goes into the scope as it is.   *)
PostTokenScope(role, repository, asked) ==
    /\ token = NoToken
    /\ Granted(role, asked) # {} \/ asked = {}
    /\ Sign(role, [repository |-> repository, actions |-> asked],
            {[repository |-> repository, actions |-> Granted(role, asked)]}, TokenTtl)

(* parse_docker_scope keeps what follows tenant/project/ as it is, reads no   *)
(* "manage" and takes "*" for a pull; get_token signs even when no action is  *)
(* left.                                                                      *)
Rests == UNION {{Name(r), Full(r)} : r \in Repos} \cup {Wildcard}
ParseDockerScope(rest, asked) ==
    [repository |-> rest,
     actions |-> (asked \ {"manage", "*"}) \cup (IF "*" \in asked THEN {"pull"} ELSE {})]
GetToken(role, rest, asked) ==
    /\ token = NoToken
    /\ LET scope == ParseDockerScope(rest, asked)
       IN Sign(role, [repository |-> Docker(rest), actions |-> asked],
               {[scope EXCEPT !.actions = Granted(role, @)]}, TokenTtl)

(* GitHub Actions and the other CI providers: a configured role, the empty    *)
(* repository, and the shorter of two lifetimes.                              *)
Shorter(a, b) == IF a < b THEN a ELSE b
CiTokenExchange(role, asked) ==
    /\ token = NoToken
    /\ Granted(role, asked) # {} \/ asked = {}
    /\ Sign(role, [repository |-> Empty, actions |-> asked],
            {[repository |-> Empty, actions |-> Granted(role, asked)]}, Shorter(TokenTtl, CiTtl))

GithubActionsToken(role, asked) ==
    /\ token = NoToken
    /\ Granted(role, asked) # {} \/ asked = {}
    /\ Sign(role, [repository |-> Empty, actions |-> asked],
            {[repository |-> Empty, actions |-> Granted(role, asked)]}, Shorter(TokenTtl, CiTtl))

(* A browser login signs a token without scopes.                              *)
LoginToken(role) ==
    /\ token = NoToken
    /\ Sign(role, NoAsk, {}, TokenTtl)

WidenOnExchange ==
    /\ token # NoToken /\ token.left > 0 /\ token.left < ExchangeTtl
    /\ token' = [token EXCEPT !.left = ExchangeTtl,
                              !.scopes = {[repository |-> Wildcard, actions |-> s.actions] : s \in @}]
    /\ UNCHANGED accepted

(* credential_exchange copies every claim of a live token but its times.      *)
CredentialExchange ==
    /\ token # NoToken /\ token.left > 0 /\ token.left < ExchangeTtl
    /\ token' = [token EXCEPT !.left = ExchangeTtl]
    /\ UNCHANGED accepted

TokenTick ==
    /\ token # NoToken
    /\ token' = IF token.left = 0 THEN NoToken ELSE [token EXCEPT !.left = @ - 1]
    /\ accepted' = IF token.left = 0 THEN {} ELSE accepted

----------------------------------------------------------------------------
(* Using *)

(* AuthenticatedClaims: the signature holds and exp has not passed.           *)
AuthenticatedClaims == token # NoToken /\ token.left > 0

Authorize(repo, action) ==
    /\ Can(token.role, action)
    /\ \/ token.role = AdminRole
       \/ \E s \in token.scopes :
            s.repository \in {Full(repo), Wildcard} /\ action \in s.actions

Operate(repo, action) ==
    /\ AuthenticatedClaims
    /\ Authorize(repo, action)
    /\ accepted' = accepted \cup {<<repo, action>>}
    /\ UNCHANGED token

TokenNext ==
    \/ \E role \in Roles :
        \/ LoginToken(role)
        \/ \E asked \in SUBSET Actions :
            \/ CiTokenExchange(role, asked)
            \/ GithubActionsToken(role, asked)
            \/ \E rs \in {Full(r) : r \in Repos} \cup {Wildcard, Empty} :
                PostTokenScope(role, rs, asked)
        \/ \E rest \in Rests, asked \in SUBSET (Actions \cup {"*"}) : GetToken(role, rest, asked)
    \/ CredentialExchange \/ TokenTick
    \/ \E repo \in Repos, action \in Actions : Operate(repo, action)

TokenSpec == TokenInit /\ [][TokenNext]_tvars

----------------------------------------------------------------------------
(* A token that is not an administrator's opens, through every exchange and   *)
(* until it expires, only what its first request asked for: the repository it *)
(* named (or every one, when it asked for "*") and the actions it listed.  In *)
(* a docker scope the repository is what follows tenant/project/: the parser  *)
(* keeps it as it is and authorize compares it with full paths, so a bare     *)
(* name opens nothing, while "*" or a full path there is taken at its word,   *)
(* in whatever tenant and project.                                            *)
ScopedUse ==
    (token # NoToken /\ token.role # AdminRole) =>
        \A op \in accepted :
            /\ op[2] \in token.ask.actions \/ (op[2] = "pull" /\ "*" \in token.ask.actions)
            /\ token.ask.repository \in UNION {{rs, Docker(rs)} : rs \in {Full(op[1]), Wildcard}}

=============================================================================
