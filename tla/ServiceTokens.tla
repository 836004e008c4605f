---------------------------- MODULE ServiceTokens -----------------------------
(***************************************************************************)
(* identityclient.Client.ResolveServiceToken and IssueServiceToken         *)
(* (identityclient/client.go), beside the introspections of the same       *)
(* client: a token of a service is cached by organization, service and     *)
(* scopes, of which only the scopes vary here, until it is about to        *)
(* expire.  The lock is not held while a token is issued, so concurrent    *)
(* callers issue one each and the last to return is kept.                  *)
(*                                                                         *)
(* Both caches are LRU lists of their own and share nothing but the        *)
(* client, so a behaviour uses one or the other.                           *)
(***************************************************************************)
EXTENDS Introspection

CONSTANTS ScopeLists,   \* what callers pass as scopes
          Lifetimes,    \* what the identity service grants, in units of a second
          Margin        \* the ten seconds of expiringSoon

\* A scope as a caller writes it: a name, with or without blanks around it.
Scopes == [name : STRING, padded : BOOLEAN]

ASSUME ServiceTokensAssumption ==
    ScopeLists \subseteq Seq(Scopes) /\ Lifetimes \subseteq Nat /\ Margin \in Nat \ {0}

VARIABLES
    uses,       \* "introspection" or "tokens"
    tokens,     \* c.serviceTokens: a sequence of [key, sent, life, left]
    call,       \* call[c]: what c asked for, and what was issued to it
    given       \* given[c]: the token the last call of c returned

tokenVars == <<tokens, call, given>>
clientVars == <<vars, uses, tokenVars>>

NoCall == [pc |-> "idle", scopes |-> <<>>, age |-> 0, life |-> 0, left |-> 0]
NoneGiven == [sent |-> <<>>, asked |-> <<>>, life |-> 0, left |-> 0, ok |-> FALSE]

ClientInit ==
    /\ Init
    /\ uses \in {"introspection", "tokens"}
    /\ tokens = <<>>
    /\ call = [c \in Callers |-> NoCall]
    /\ given = [c \in Callers |-> NoneGiven]

\* strings.TrimSpace.
TrimSpace(s) == [name |-> s.name, padded |-> FALSE]

\* Trimmed, without the empty ones, sorted and without repetitions: a set.
cacheScopesKey(scopes) ==
    {TrimSpace(scopes[i]) : i \in DOMAIN scopes} \ {[name |-> "", padded |-> FALSE]}

\* Mutant: a token is used until it expires.
expiringSoon_Late(cached) == cached.left < 0

expiringSoon(cached) == cached.left < Margin

\* The call returns the token, of which the history keeps for which list of
\* scopes it was issued and for how long.
give(c, scopes, issued) ==
    given' = [given EXCEPT ![c] =
        [sent |-> issued.sent, asked |-> scopes, life |-> issued.life,
         left |-> issued.left, ok |-> TRUE]]
-------------------------------------------------------------------------------
\* Under the lock: a token that is good for a while is returned at once.  Get
\* promotes the entry even if it is not.
ResolveServiceToken(c, scopes) ==
    LET key == cacheScopesKey(scopes)
        hit == key \in Keys(tokens) /\ ~expiringSoon(Entry(tokens, key))
    IN  /\ call[c].pc = "idle"
        /\ tokens' = Get(tokens, key)
        /\ IF hit
           THEN give(c, scopes, Entry(tokens, key)) /\ UNCHANGED call
           ELSE /\ call' = [call EXCEPT ![c] = [NoCall EXCEPT !.pc = "issue", !.scopes = scopes]]
                /\ given' = [given EXCEPT ![c] = NoneGiven]

\* The list is sent as it was passed.  The service answers with a token whose
\* expiry is in the response or in the claims, and is whatever the service makes
\* of the ttl that was asked for.
IssueServiceToken(c, life) ==
    /\ call[c].pc = "issue"
    /\ call' = [call EXCEPT ![c].pc = "issued", ![c].life = life, ![c].left = life]
    /\ UNCHANGED <<tokens, given>>

\* The request fails, or the answer has no token or no expiry: nothing is
\* cached, even if a token was issued.
IssueFails(c) ==
    /\ call[c].pc \in {"issue", "issued"}
    /\ call' = [call EXCEPT ![c] = NoCall]
    /\ UNCHANGED <<tokens, given>>

\* Under the lock again: the token replaces whatever is cached by now, even if it
\* expires sooner or has expired.
StoreToken(c) ==
    LET issued == [key |-> cacheScopesKey(call[c].scopes), sent |-> call[c].scopes,
                   life |-> call[c].life, left |-> call[c].left]
    IN  /\ call[c].pc = "issued"
        /\ tokens' = Put(tokens, issued)
        /\ give(c, call[c].scopes, issued)
        /\ call' = [call EXCEPT ![c] = NoCall]

\* The time until expiry counts down to zero.
older(left) == IF left > 0 THEN left - 1 ELSE 0

TokenTick ==
    /\ \A c \in Callers : call[c].pc # "idle" => call[c].age < Timeout
    /\ call' = [c \in Callers |->
                   IF call[c].pc = "idle" THEN call[c]
                   ELSE [call[c] EXCEPT !.age = @ + 1, !.left = older(@)]]
    /\ tokens' = [i \in DOMAIN tokens |-> [tokens[i] EXCEPT !.left = older(@)]]
    /\ UNCHANGED given

TokenNext ==
    \/ \E c \in Callers :
          \/ \E scopes \in ScopeLists : ResolveServiceToken(c, scopes)
          \/ \E life \in Lifetimes : IssueServiceToken(c, life)
          \/ IssueFails(c) \/ StoreToken(c)
    \/ TokenTick

ClientNext ==
    \/ uses = "introspection" /\ Next /\ UNCHANGED <<uses, tokenVars>>
    \/ uses = "tokens" /\ TokenNext /\ UNCHANGED <<uses, vars>>

ClientSpec == ClientInit /\ [][ClientNext]_clientVars
-------------------------------------------------------------------------------
\* The scopes that a list names.
Names(scopes) == {scopes[i].name : i \in DOMAIN scopes} \ {""}

\* A token that is returned was issued for a list that names the scopes asked for,
\* however either is written, and has the margin left, or what the service granted
\* less the time of one call: nobody is handed a token that ran out in the cache,
\* whoever stored it and however late over a better one.
TokenServes ==
    \A c \in Callers : given[c].ok =>
        /\ Names(given[c].sent) = Names(given[c].asked)
        /\ \/ given[c].left >= Margin
           \/ given[c].left >= given[c].life - Timeout
===============================================================================
