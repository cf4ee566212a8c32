----------------------------- MODULE ApprovalToken -----------------------------
(***************************************************************************)
(* The authorization token of the execute domain: gate/token.py (mint and  *)
(* verify) over the money rule of the contracts package (Money).           *)
(*                                                                         *)
(* A token is a scheme label, a payload (the claims), the spelling of its  *)
(* base64url, and a seal.  The seal is the MAC, as a free constructor over *)
(* what is MACed: equal seals mean equal label, payload and secret.  The   *)
(* module verifies tokens minted here, tokens issued under the same secret *)
(* by code that checks nothing, and tokens changed on the way.  The caller *)
(* reads "now" from a clock that lags by up to CLOCK_SKEW.                 *)
(***************************************************************************)
EXTENDS Money, Sequences, FiniteSets

CONSTANTS
    Proposal,       \* proposal hashes
    Recipient,      \* recipient labels
    Amount,         \* amounts as written: coefficient and exponent of ten
    MAX_TOKEN_TTL, CLOCK_SKEW,
    Horizon         \* bound: when the model's time stops

Time == 0..Horizon

ASSUME TimesAssumption ==
    {MAX_TOKEN_TTL, CLOCK_SKEW} \subseteq Nat /\ Horizon \in Nat \ {0}
ASSUME AmountAssumption == Amount \subseteq [coef : Nat, exp : Int]

-----------------------------------------------------------------------------
\* Tokens.

Claims == [proposal : Proposal, amount : {Normalize(a) : a \in Amount},
           recipient : Recipient, issued : Time, expires : Time]

\* The validators of TokenClaims.
ClaimsValid(c) == c.amount.coef > 0 /\ c.expires > c.issued

\* A plausible slip: a MAC that leaves the recipient out.
Mac_NoRecipient(scheme, c) ==
    [scheme |-> scheme, payload |-> [c EXCEPT !.recipient = CHOOSE r \in Recipient : TRUE]]

\* The MAC under the domain's secret.
Mac(scheme, c) == [scheme |-> scheme, payload |-> c]
Unsealed == [scheme |-> "none"]

TOKEN_SCHEME == "hodlin-auth-v1"

Sealed(c) ==
    [scheme |-> TOKEN_SCHEME, payload |-> c, spelling |-> "canonical", seal |-> Mac(TOKEN_SCHEME, c)]

\* What a token can turn into on its way: itself, another label, another
\* spelling of the same bytes, a part too few or too many, another seal, another
\* value of one claim.
Variants(t) ==
    {t, [t EXCEPT !.scheme = "hodlin-auth-v2"], [t EXCEPT !.spelling = "other"],
     [t EXCEPT !.spelling = "garbled"], [t EXCEPT !.spelling = "cut"],
     [t EXCEPT !.seal = Unsealed]}
    \cup {[t EXCEPT !.payload.proposal = p] : p \in Proposal}
    \cup {[t EXCEPT !.payload.recipient = r] : r \in Recipient}
    \cup {[t EXCEPT !.payload.amount = Normalize(a)] : a \in Amount}
    \cup {[t EXCEPT !.payload.expires = e] : e \in Time}

\* What the caller is about to do, with the amount as written.
Binding == [proposal : Proposal, amount : Amount, recipient : Recipient]

\* verify splits a token into label, payload and signature.
Splits(t) == t.spelling # "cut"

\* _b64u_decode accepts only the canonical spelling.
Decodes(t) == t.spelling = "canonical"

Authentic(t) == t.seal = Mac(t.scheme, t.payload)

\* A plausible slip: the amount bound by the token is not compared.
AmountMatches_Skipped(c, b) == TRUE

\* Decimals are compared by value.
AmountMatches(c, b) == SameValue(c.amount, Normalize(b.amount))

WindowTooLong(c) == c.expires - c.issued > MAX_TOKEN_TTL

\* Plausible slips: no tolerance for a lagging clock, and one on the wrong end.
NotYetValid_NoSkew(c, at) == at < c.issued
NotYetValid(c, at) == at + CLOCK_SKEW < c.issued

Expired_Skewed(c, at) == at >= c.expires + CLOCK_SKEW
Expired(c, at) == at >= c.expires

\* A plausible slip: the binding is looked at before the seal.
Checks_BindingFirst ==
    <<"unknown_scheme", "malformed", "proposal_mismatch", "amount_mismatch", "recipient_mismatch",
      "bad_signature", "claims_invalid", "window_too_long", "not_yet_valid", "expired">>

\* The checks of verify, in order, each by the reason it gives.  A token that does
\* not split is malformed before it has a label to know.
Checks ==
    <<"unknown_scheme", "malformed", "bad_signature", "claims_invalid",
      "proposal_mismatch", "amount_mismatch", "recipient_mismatch",
      "window_too_long", "not_yet_valid", "expired">>

Fails(check, t, b, at) ==
    \/ check = "unknown_scheme" /\ Splits(t) /\ t.scheme # TOKEN_SCHEME
    \/ check = "malformed" /\ ~(Splits(t) /\ Decodes(t))
    \/ check = "bad_signature" /\ ~Authentic(t)
    \/ check = "claims_invalid" /\ ~ClaimsValid(t.payload)
    \/ check = "proposal_mismatch" /\ t.payload.proposal # b.proposal
    \/ check = "amount_mismatch" /\ ~AmountMatches(t.payload, b)
    \/ check = "recipient_mismatch" /\ t.payload.recipient # b.recipient
    \/ check = "window_too_long" /\ WindowTooLong(t.payload)
    \/ check = "not_yet_valid" /\ NotYetValid(t.payload, at)
    \/ check = "expired" /\ Expired(t.payload, at)

\* The first check that fails is the reason.
Verify(t, b, at) ==
    LET failing == {i \in DOMAIN Checks : Fails(Checks[i], t, b, at)}
    IN  IF failing = {} THEN "verified" ELSE Checks[Min(failing)]

-----------------------------------------------------------------------------
VARIABLES
    clock,
    token,          \* the token in circulation, {} before there is one
    minted,         \* it was minted here
    written,        \* the amount it was minted for, as written
    last,           \* the latest verification: token, binding, time and result
    accepted        \* history: the tokens that were verified, and when

vars == <<clock, token, minted, written, last, accepted>>

TypeOK ==
    /\ clock \in Time
    /\ Cardinality(token) <= 1 /\ written \subseteq Amount /\ minted \in BOOLEAN
    /\ \A t \in token : t.payload \in Claims /\ t.spelling = "canonical"
    /\ minted => \A t \in token : ClaimsValid(t.payload) /\ ~WindowTooLong(t.payload)
    /\ Cardinality(last) <= 1
    /\ \A x \in last : x.binding \in Binding /\ x.at \in Time
    /\ \A x \in accepted : x.at \in Time

Init ==
    /\ clock = 0 /\ token = {} /\ minted = FALSE /\ written = {} /\ last = {} /\ accepted = {}

Mintable(c) == ClaimsValid(c) /\ ~WindowTooLong(c)

Claim(p, a, r, i, e) ==
    [proposal |-> p, amount |-> Normalize(a), recipient |-> r, issued |-> i, expires |-> e]

\* mint, now.
Mint(a) ==
    /\ token = {}
    /\ \E p \in Proposal, r \in Recipient, e \in Time :
         LET c == Claim(p, a, r, clock, e)
         IN  Mintable(c) /\ token' = {Sealed(c)}
    /\ minted' = TRUE /\ written' = {a}
    /\ UNCHANGED <<clock, last, accepted>>

\* A token under the same secret from code that checks no window and no clock.
IssuedElsewhere(a) ==
    /\ token = {}
    /\ \E p \in Proposal, r \in Recipient, i \in Time, e \in Time :
         token' = {Sealed(Claim(p, a, r, i, e))}
    /\ minted' = FALSE /\ written' = {a}
    /\ UNCHANGED <<clock, last, accepted>>

\* verify, by a caller whose clock lags by up to CLOCK_SKEW.
Present(t, b, at) ==
    LET result == Verify(t, b, at) IN
    /\ last = {}
    /\ clock - CLOCK_SKEW <= at /\ at <= clock
    /\ last' = {[token |-> t, binding |-> b, at |-> at, result |-> result]}
    /\ accepted' = IF result = "verified" THEN accepted \cup {[token |-> t, at |-> at]} ELSE accepted
    /\ UNCHANGED <<clock, token, minted, written>>

\* The caller is done with the result.
Return ==
    /\ last # {} /\ last' = {}
    /\ UNCHANGED <<clock, token, minted, written, accepted>>

Tick ==
    /\ clock < Horizon /\ last = {}
    /\ clock' = clock + 1
    /\ UNCHANGED <<token, minted, written, last, accepted>>

Next ==
    \/ \E a \in Amount : Mint(a) \/ IssuedElsewhere(a)
    \/ \E t \in token : \E v \in Variants(t), b \in Binding, at \in Time : Present(v, b, at)
    \/ Return
    \/ Tick

Spec == Init /\ [][Next]_vars

-----------------------------------------------------------------------------
\* Properties.

Verified == {x \in last : x.result = "verified"}

\* Only the issued token passes, in its one spelling and with every claim of it as
\* sealed, and only for the proposal and the recipient it names.
OnlyAsIssued ==
    \A x \in Verified :
        /\ x.token \in token
        /\ x.binding.proposal = x.token.payload.proposal
        /\ x.binding.recipient = x.token.payload.recipient

\* An act is authorized for the amount that was approved, however it is written.
AmountAuthorized == \A x \in Verified : \A a \in written : SameValue(x.binding.amount, a)

\* Short-lived whoever minted it: two verifications of a token are less than
\* its longest window and the tolerated skew apart.
ShortLived ==
    \A x \in accepted : \A y \in accepted :
        x.token.payload = y.token.payload => x.at - y.at < MAX_TOKEN_TTL + CLOCK_SKEW

\* A token minted here is never refused for its own act before it expires,
\* although the verifying clock lags and the amount may be written differently.
HonestAccepted ==
    \A x \in last : \A t \in token : \A a \in written :
        /\ minted /\ x.token = t
        /\ x.binding.proposal = t.payload.proposal
        /\ x.binding.recipient = t.payload.recipient
        /\ SameValue(x.binding.amount, a)
        /\ x.at < t.payload.expires
        => x.result = "verified"

\* The reason on record never rests on unauthenticated claims: a mismatch or a
\* window is reported only of a token whose seal holds.
ReasonFromAuthenticClaims ==
    \A x \in last :
        x.result \notin {"unknown_scheme", "malformed", "bad_signature"} => Authentic(x.token)
=============================================================================
