-------------------------- MODULE CookieFlowsProofs --------------------------
(***************************************************************************)
(* Theorems of CookieFlows for any number of browsers, requests and ids,   *)
(* with their proofs.                                                      *)
(*                                                                         *)
(* Everything a browser holds, or an answer is about to set, was minted    *)
(* before for the cookie it is in (FlowInv), and what was minted never     *)
(* changes (Grows). A step is a change of one request, whose new record    *)
(* fits, or the arrival of an answer that does.                            *)
(***************************************************************************)
EXTENDS CookieFlows, TLAPS

----------------------------------------------------------------------------
(* The constants of the specification                                      *)

\* Which endpoints read a cookie, and which one.
LEMMA ReadsFacts ==
    /\ DOMAIN Reads = {"verify", "resend", "verify_forgot", "reset", "refresh", "logout"}
    /\ Reads["verify"] = "otp_token" /\ Reads["resend"] = "otp_token"
    /\ Reads["verify_forgot"] = "otp_token" /\ Reads["reset"] = "reset_token"
    /\ Reads["refresh"] = "refresh_token" /\ Reads["logout"] = "refresh_token"
    /\ \A op \in DOMAIN Reads : Reads[op] \in Cookies
    /\ Ops = DOMAIN Reads \union {"register", "login", "forgot"}
BY DEF Reads, Ops, Cookies

\* The purposes of the endpoints that verify.
LEMMA PurposeFacts ==
    /\ DOMAIN Purpose = {"verify", "verify_forgot"}
    /\ Purpose["verify"] = "registration" /\ Purpose["verify_forgot"] = "forgot_password"
BY DEF Purpose

\* A function from cookies to ids is a setting.
LEMMA SettingsIntro ==
    ASSUME NEW C \in SUBSET Cookies, NEW f \in [C -> Ids \union {None}]
    PROVE  f \in Settings
BY DEF Settings

\* The record of a request that does nothing is one, and fits.
LEMMA IdleFits == Idle \in RequestState /\ NoCookies \in Settings /\ Fits(Idle)
<1>1. NoCookies \in [{} -> Ids \union {None}] /\ DOMAIN NoCookies = {} BY DEF NoCookies
<1>2. NoCookies \in Settings BY <1>1, SettingsIntro
<1>3. Nothing \in Writes /\ Nothing.store = {} BY DEF Nothing, Writes
<1>4. "login" \in Ops /\ "login" \notin DOMAIN Reads BY ReadsFacts
<1>5. Idle \in RequestState BY <1>2, <1>3, <1>4 DEF Idle, RequestState
<1>6. Fits(Idle) BY <1>1, <1>3, <1>4 DEF Fits, Idle, Paired, RowsMinted
<1> QED BY <1>2, <1>5, <1>6

----------------------------------------------------------------------------
(* What was minted stays                                                   *)

Grows ==
    /\ \A o \in Otps : code[o] # None => code'[o] = code[o]
    /\ \A t \in Tokens : session[t] # None => session'[t] = session[t]
    /\ \A p \in Resets : proof[p] # None => proof'[p] = proof[p]

\* An id that was minted for a cookie stays minted for it.
LEMMA MintedGrows ==
    ASSUME Grows, NEW c, NEW v, Minted(c, v)
    PROVE  Minted(c, v)'
BY DEF Grows, Minted

\* A request that fits still fits when more is minted.
LEMMA FitsGrows ==
    ASSUME Grows, NEW w, Fits(w)
    PROVE  Fits(w)'
<1>1. w.op \in DOMAIN Reads => Minted(Reads[w.op], w.cookie)' BY MintedGrows DEF Fits
<1>2. \A c \in DOMAIN w.set : Minted(c, w.set[c])' BY MintedGrows DEF Fits
<1>3. RowsMinted(w.tx.store)' BY DEF Fits, RowsMinted, Grows
<1> QED BY <1>1, <1>2, <1>3 DEF Fits, Paired

\* The committed rows stay minted.
LEMMA RowsGrow ==
    ASSUME Grows, NEW S, RowsMinted(S)
    PROVE  RowsMinted(S)'
BY DEF Grows, RowsMinted

\* A reset token stays proved.
LEMMA ProvedGrows ==
    ASSUME TypeOK, Grows, NEW p \in Resets, proof[p] # None, Proved(p)
    PROVE  Proved(p)'
<1>1. proof'[p] = proof[p] BY DEF Grows
<1>2. proof[p].code \in Otps BY DEF TypeOK, ProofRow
<1>3. code'[proof[p].code] = code[proof[p].code] BY <1>2 DEF Grows, Proved
<1> QED BY <1>1, <1>3 DEF Proved

----------------------------------------------------------------------------
(* A step that changes one request                                         *)

\* The part of the type that no action reads.
HistoryFits == lost \subseteq Tokens /\ unsaved \subseteq Tokens /\ ended \subseteq Tokens

\* The history is kept.
LEMMA HistoryKept ==
    ASSUME FlowInv, UNCHANGED history
    PROVE  HistoryFits'
BY DEF FlowInv, TypeOK, HistoryFits, history

\* The invariant survives a step that only mints, and gives one request a record
\* that fits.
LEMMA RequestKeeps ==
    ASSUME FlowInv, Grows, NEW r \in Requests, NEW w \in RequestState,
           wire' = [wire EXCEPT ![r] = w], Fits(w)',
           now' \in Nat,
           user' \in [Emails -> {"none", "pending", "active"}],
           code' \in [Otps -> CodeRow \union {None}],
           session' \in [Tokens -> SessionRow \union {None}],
           proof' \in [Resets -> ProofRow \union {None}],
           stored' \subseteq Otps \union Tokens, RowsMinted(stored)',
           revoked' \subseteq Otps \union Tokens,
           attempts' \in [Otps -> Nat], resets' \in [Resets -> Nat], faults' \in Nat,
           jar' \in [Browsers -> Jars], JarCoherent', HistoryFits',
           \A b \in Browsers, c \in Cookies : Minted(c, jar[b][c])',
           \A p \in Resets : proof[p] = None /\ proof'[p] # None => Proved(p)'
    PROVE  FlowInv'
<1>1. wire' \in [Requests -> RequestState] BY DEF FlowInv, TypeOK
<1>2. TypeOK' BY <1>1 DEF TypeOK, HistoryFits
<1>3. ASSUME NEW s \in Requests PROVE Fits(wire[s])'
    <2>1. CASE s = r
        <3>1. wire'[s] = w BY <2>1 DEF FlowInv, TypeOK
        <3> QED BY <3>1 DEF Fits, Minted, Paired, RowsMinted
    <2>2. CASE s # r
        <3>1. PICK v : v = wire[s] OBVIOUS
        <3>2. wire'[s] = v BY <2>2, <3>1 DEF FlowInv, TypeOK
        <3>3. Fits(v)' BY <3>1, FitsGrows DEF FlowInv
        <3> QED BY <3>2, <3>3 DEF Fits, Minted, Paired, RowsMinted
    <2> QED BY <2>1, <2>2
<1>4. ASSUME NEW p \in Resets, proof'[p] # None PROVE Proved(p)'
    BY <1>4, ProvedGrows DEF FlowInv
<1> QED BY <1>2, <1>3, <1>4 DEF FlowInv

\* The same for a handler that returns: the record is the one Answer makes.
LEMMA AnswerKeeps ==
    ASSUME FlowInv, Grows, NEW r \in Requests,
           NEW q \in RequestState, Fits(q),
           NEW set \in Settings, NEW tx \in Writes,
           Answer(r, q, set, tx),
           \A c \in DOMAIN set : Minted(c, set[c])', Paired(set), RowsMinted(tx.store)',
           user' \in [Emails -> {"none", "pending", "active"}],
           code' \in [Otps -> CodeRow \union {None}],
           session' \in [Tokens -> SessionRow \union {None}],
           proof' \in [Resets -> ProofRow \union {None}],
           stored' = stored, revoked' \subseteq Otps \union Tokens,
           attempts' \in [Otps -> Nat], resets' = resets,
           \A p \in Resets : proof[p] = None /\ proof'[p] # None => Proved(p)'
    PROVE  FlowInv'
<1> DEFINE w == [q EXCEPT !.pc = IF tx = Nothing THEN "committed" ELSE "served",
                          !.set = set, !.tx = tx]
<1>1. /\ w \in RequestState /\ w.op = q.op /\ w.cookie = q.cookie
      /\ w.set = set /\ w.tx = tx
    BY DEF RequestState
<1>2. wire' = [wire EXCEPT ![r] = w] /\ UNCHANGED <<now, jar, faults, history>> BY DEF Answer
<1> HIDE DEF w
<1>3. Fits(w)'
    <2>1. Fits(q)' BY FitsGrows
    <2>2. /\ w.op \in DOMAIN Reads => Minted(Reads[w.op], w.cookie)'
          /\ \A c \in DOMAIN w.set : Minted(c, w.set[c])'
          /\ Paired(w.set) /\ RowsMinted(w.tx.store)'
        BY <1>1, <2>1 DEF Fits
    <2> QED BY <2>2 DEF Fits, Paired
<1>4. RowsMinted(stored)' BY RowsGrow DEF FlowInv, RowsMinted, Grows
<1>5. ASSUME NEW b \in Browsers, NEW c \in Cookies PROVE Minted(c, jar[b][c])'
    <2>1. PICK v : v = jar[b][c] OBVIOUS
    <2>2. Minted(c, v)' BY <2>1, MintedGrows DEF FlowInv
    <2> QED BY <1>2, <2>1, <2>2 DEF Minted
<1>6. JarCoherent' BY <1>2 DEF FlowInv, JarCoherent
<1>7. /\ now' \in Nat /\ faults' \in Nat /\ jar' \in [Browsers -> Jars]
      /\ stored' \subseteq Otps \union Tokens /\ resets' \in [Resets -> Nat]
    BY <1>2 DEF FlowInv, TypeOK
<1>8. HistoryFits' BY <1>2, HistoryKept
<1> QED BY <1>1, <1>2, <1>3, <1>4, <1>5, <1>6, <1>7, <1>8, RequestKeeps

----------------------------------------------------------------------------
(* The requests that arrive                                                *)

\* A request as a browser sends it is one, and fits.
LEMMA RequestFits ==
    ASSUME FlowInv, NEW b \in Browsers, NEW op \in Ops
    PROVE  Request(b, op) \in RequestState /\ Fits(Request(b, op))
<1> DEFINE v == IF op \in DOMAIN Reads THEN jar[b][Reads[op]] ELSE None
           q == Request(b, op)
<1>1. v \in Ids \union {None} BY ReadsFacts DEF FlowInv, TypeOK, Jars
<1>2. op \in DOMAIN Reads => Minted(Reads[op], v) BY ReadsFacts DEF FlowInv
<1> HIDE DEF v
<1>3. /\ q \in RequestState /\ q.op = op /\ q.cookie = v
      /\ q.set = NoCookies /\ q.tx = Nothing
    <2>1. q = [Idle EXCEPT !.pc = "sent", !.from = b, !.op = op, !.cookie = v]
        BY DEF Request, v
    <2>2. Idle.set = NoCookies /\ Idle.tx = Nothing BY DEF Idle
    <2> QED BY <1>1, <2>1, <2>2, IdleFits, SMTT(30), ZenonT(30) DEF RequestState
<1>4. DOMAIN q.set = {} /\ RowsMinted(q.tx.store)
    BY <1>3 DEF NoCookies, Nothing, RowsMinted
<1> QED BY <1>2, <1>3, <1>4 DEF Fits, Paired

\* What arrives at a handler is a request that fits; what reads a cookie was sent.
LEMMA ArrivingFits ==
    ASSUME FlowInv, NEW r \in Requests, NEW q \in Arriving(r)
    PROVE  /\ q \in RequestState /\ Fits(q)
           /\ q.op \in DOMAIN Reads => q = wire[r] /\ wire[r].pc = "sent"
<1>1. CASE wire[r].pc = "sent" BY <1>1 DEF Arriving, FlowInv, TypeOK
<1>2. CASE wire[r].pc # "sent"
    <2>1. PICK b \in Browsers, op \in Ops \ DOMAIN Reads : q = Request(b, op)
        BY <1>2 DEF Arriving
    <2>2. q \in RequestState /\ Fits(q) BY <2>1, RequestFits
    <2>3. q.op = op BY <2>1, IdleFits DEF Request, RequestState
    <2> QED BY <2>1, <2>2, <2>3
<1> QED BY <1>1, <1>2

\* The invariant survives a step that ends a request and mints nothing.
LEMMA OverKeeps ==
    ASSUME FlowInv, NEW r \in Requests, wire' = Over(r), HistoryFits',
           UNCHANGED <<now, jar, user, code, session, proof>>,
           stored' \subseteq Otps \union Tokens, RowsMinted(stored)',
           revoked' \subseteq Otps \union Tokens,
           attempts' \in [Otps -> Nat], resets' \in [Resets -> Nat], faults' \in Nat
    PROVE  FlowInv'
<1>1. PICK w : w = Idle OBVIOUS
<1>2. w \in RequestState /\ Fits(w) BY <1>1, IdleFits
<1>3. wire' = [wire EXCEPT ![r] = w] BY <1>1 DEF Over
<1>4. Grows BY DEF Grows
<1>5. Fits(w)' BY <1>2, <1>4, FitsGrows
<1>6. /\ now' \in Nat /\ jar' \in [Browsers -> Jars]
      /\ user' \in [Emails -> {"none", "pending", "active"}]
      /\ code' \in [Otps -> CodeRow \union {None}]
      /\ session' \in [Tokens -> SessionRow \union {None}]
      /\ proof' \in [Resets -> ProofRow \union {None}]
    BY DEF FlowInv, TypeOK
<1>7. JarCoherent' /\ \A b \in Browsers, c \in Cookies : Minted(c, jar[b][c])'
    BY DEF FlowInv, JarCoherent, Minted
<1> QED BY <1>2, <1>3, <1>4, <1>5, <1>6, <1>7, RequestKeeps

\* A refusal keeps the invariant.
LEMMA RefuseKeeps ==
    ASSUME FlowInv, NEW r \in Requests, Refuse(r),
           UNCHANGED <<user, code, session, proof, stored, resets>>,
           revoked' \subseteq Otps \union Tokens, attempts' \in [Otps -> Nat]
    PROVE  FlowInv'
<1>1. HistoryFits' BY HistoryKept DEF Refuse
<1>2. RowsMinted(stored)' BY DEF FlowInv, RowsMinted
<1>3. stored' \subseteq Otps \union Tokens /\ resets' \in [Resets -> Nat] /\ faults' \in Nat
    BY DEF FlowInv, TypeOK, Refuse
<1> QED BY <1>1, <1>2, <1>3, OverKeeps DEF Refuse

----------------------------------------------------------------------------
(* The handlers                                                            *)

\* The queries return rows of their table.
LEMMA QueryFacts ==
    ASSUME NEW e, NEW purpose
    PROVE  /\ Active(e, purpose) \subseteq stored \intersect Otps
           /\ Live(e) \subseteq stored \intersect Tokens
BY DEF Active, Rows, Live

\* Issuing a code keeps the invariant.
LEMMA IssueKeeps ==
    ASSUME FlowInv, NEW r \in Requests, NEW q \in RequestState, Fits(q),
           NEW e \in Emails, NEW purpose \in Purposes, Issue(r, q, e, purpose),
           user' \in [Emails -> {"none", "pending", "active"}]
    PROVE  FlowInv'
<1> DEFINE row == [email |-> e, purpose |-> purpose, at |-> now]
<1>1. PICK o \in Otps :
          /\ code[o] = None
          /\ code' = [code EXCEPT ![o] = row]
          /\ Answer(r, q, SetOtpToken(o),
                    [Nothing EXCEPT !.store = {o}, !.revoke = Active(e, purpose)])
          /\ UNCHANGED <<session, proof, stored, revoked, attempts, resets>>
    BY DEF Issue
<1>2. PICK tx : tx = [Nothing EXCEPT !.store = {o}, !.revoke = Active(e, purpose)] OBVIOUS
<1>3. PICK set : set = SetOtpToken(o) OBVIOUS
<1>4. row \in CodeRow /\ row # None
    <2>1. row \in CodeRow BY DEF FlowInv, TypeOK, CodeRow
    <2>2. None \notin CodeRow BY NoneAssumption
    <2> QED BY <2>1, <2>2
<1> HIDE DEF row
<1>5. code' \in [Otps -> CodeRow \union {None}] /\ code'[o] # None
    BY <1>1, <1>4 DEF FlowInv, TypeOK
<1>6. Grows BY <1>1 DEF Grows, FlowInv, TypeOK
<1>7. set \in Settings /\ DOMAIN set = {"otp_token"} /\ set["otp_token"] = o
    <2>1. set \in [{"otp_token"} -> Ids \union {None}] BY <1>3 DEF SetOtpToken, Ids
    <2> QED BY <1>3, <2>1, SettingsIntro DEF SetOtpToken, Cookies
<1>8. tx \in Writes /\ tx.store = {o}
    BY <1>2, QueryFacts DEF Writes, Nothing, FlowInv, TypeOK
<1>9. \A c \in DOMAIN set : Minted(c, set[c])' BY <1>5, <1>7 DEF Minted
<1>10. Paired(set) BY <1>7 DEF Paired
<1>11. RowsMinted(tx.store)' BY <1>5, <1>8, ConstantsAssumption DEF RowsMinted
<1>12. /\ session' \in [Tokens -> SessionRow \union {None}]
       /\ proof' \in [Resets -> ProofRow \union {None}]
       /\ revoked' \subseteq Otps \union Tokens /\ attempts' \in [Otps -> Nat]
    BY <1>1 DEF FlowInv, TypeOK
<1>13. \A p \in Resets : proof[p] = None /\ proof'[p] # None => Proved(p)' BY <1>1
<1>14. Answer(r, q, set, tx) BY <1>1, <1>2, <1>3
<1> QED BY <1>1, <1>5, <1>6, <1>7, <1>8, <1>9, <1>10, <1>11, <1>12, <1>13, <1>14, AnswerKeeps

\* The cookie of a request in a flow is a code, of an email and a purpose.
LEMMA FlowCookie ==
    ASSUME FlowInv, NEW q \in RequestState, Fits(q), q.op \in {"verify", "verify_forgot", "resend"},
           q.cookie # None
    PROVE  /\ q.cookie \in Otps /\ code[q.cookie] \in CodeRow
           /\ code[q.cookie].email \in Emails /\ code[q.cookie].purpose \in Purposes
<1>1. q.op \in DOMAIN Reads /\ Reads[q.op] = "otp_token" BY ReadsFacts
<1>2. Minted("otp_token", q.cookie) BY <1>1 DEF Fits
<1>3. q.cookie \in Otps /\ code[q.cookie] # None BY <1>2 DEF Minted
<1>4. code[q.cookie] \in CodeRow BY <1>3 DEF FlowInv, TypeOK
<1> QED BY <1>3, <1>4 DEF CodeRow

\* A guess is compared with a stored, unexpired code of the flow.
LEMMA ComparedFacts ==
    ASSUME FlowInv, NEW q \in RequestState, Fits(q), NEW o \in Compared(q)
    PROVE  /\ InFlow(q) /\ q.cookie \in Otps
           /\ o \in Otps /\ code[o] # None
           /\ code[o].email = code[q.cookie].email /\ code[o].email \in Emails
           /\ code[o].purpose = Purpose[q.op] /\ code[q.cookie].purpose = Purpose[q.op]
           /\ code[o].at + OtpExpire > now
<1>1. InFlow(q) BY DEF Compared
<1>2. o \in Active(code[q.cookie].email, Purpose[q.op]) BY <1>1 DEF Compared, Newest
<1>3. /\ o \in stored \intersect Otps /\ code[o].email = code[q.cookie].email
      /\ code[o].purpose = Purpose[q.op] /\ code[o].at + OtpExpire > now
    BY <1>2 DEF Active, Rows
<1>4. code[o] # None BY <1>3 DEF FlowInv, RowsMinted
<1>5. q.cookie # None /\ q.op \in {"verify", "verify_forgot"}
    BY <1>1, PurposeFacts DEF InFlow, Valid
<1>6. q.cookie \in Otps /\ code[q.cookie].email \in Emails BY <1>5, FlowCookie
<1> QED BY <1>1, <1>3, <1>4, <1>6 DEF InFlow

\* A handler that answers with a new session keeps the invariant.
LEMMA SessionKeeps ==
    ASSUME FlowInv, NEW r \in Requests, NEW q \in RequestState, Fits(q),
           NEW t \in Tokens, session[t] = None, NEW row \in SessionRow,
           session' = [session EXCEPT ![t] = row],
           NEW set \in Settings, set["access_token"] = t, set["refresh_token"] = t,
           DOMAIN set \subseteq {"access_token", "refresh_token", "otp_token"},
           {"access_token", "refresh_token"} \subseteq DOMAIN set,
           "otp_token" \in DOMAIN set => set["otp_token"] = None,
           NEW tx \in Writes, tx.store = {t},
           Answer(r, q, set, tx),
           user' \in [Emails -> {"none", "pending", "active"}],
           UNCHANGED <<code, proof, stored, attempts, resets>>,
           revoked' \subseteq Otps \union Tokens
    PROVE  FlowInv'
<1>1. row # None BY NoneAssumption
<1>2. session' \in [Tokens -> SessionRow \union {None}] /\ session'[t] # None
    BY <1>1 DEF FlowInv, TypeOK
<1>3. Grows BY DEF Grows, FlowInv, TypeOK
<1>4. \A c \in DOMAIN set : Minted(c, set[c])' BY <1>2 DEF Minted
<1>5. Paired(set) BY DEF Paired
<1>6. RowsMinted(tx.store)' BY <1>2, ConstantsAssumption DEF RowsMinted
<1>7. /\ code' \in [Otps -> CodeRow \union {None}]
      /\ proof' \in [Resets -> ProofRow \union {None}] /\ attempts' \in [Otps -> Nat]
    BY DEF FlowInv, TypeOK
<1>8. \A p \in Resets : proof[p] = None /\ proof'[p] # None => Proved(p)' OBVIOUS
<1>9. stored' = stored /\ resets' = resets OBVIOUS
<1> QED BY <1>2, <1>3, <1>4, <1>5, <1>6, <1>7, <1>8, <1>9, AnswerKeeps

\* Both session cookies are a setting.
LEMMA SetSessionFacts ==
    ASSUME NEW t \in Tokens
    PROVE  /\ SetSession(t) \in Settings
           /\ DOMAIN SetSession(t) = {"access_token", "refresh_token"}
           /\ SetSession(t)["access_token"] = t /\ SetSession(t)["refresh_token"] = t
<1>1. SetSession(t) \in [{"access_token", "refresh_token"} -> Ids \union {None}]
    BY DEF SetSession, Ids
<1> QED BY <1>1, SettingsIntro DEF SetSession, Cookies

\* A handler that only deletes cookies keeps the invariant.
LEMMA ClearKeeps ==
    ASSUME FlowInv, NEW r \in Requests, NEW q \in RequestState, Fits(q),
           NEW C \in SUBSET Cookies, "access_token" \in C <=> "refresh_token" \in C,
           NEW tx \in Writes, tx.store = {},
           Answer(r, q, [c \in C |-> None], tx), UNCHANGED tables
    PROVE  FlowInv'
<1>1. PICK set : set = [c \in C |-> None] OBVIOUS
<1>2. set \in [C -> Ids \union {None}] /\ DOMAIN set = C /\ \A c \in C : set[c] = None BY <1>1
<1>3. set \in Settings BY <1>2, SettingsIntro
<1>4. Grows BY DEF Grows, tables
<1>5. (\A c \in DOMAIN set : Minted(c, set[c])') /\ Paired(set) BY <1>2 DEF Minted, Paired
<1>6. RowsMinted(tx.store)' BY DEF RowsMinted
<1>7. /\ user' \in [Emails -> {"none", "pending", "active"}]
      /\ code' \in [Otps -> CodeRow \union {None}]
      /\ session' \in [Tokens -> SessionRow \union {None}]
      /\ proof' \in [Resets -> ProofRow \union {None}]
      /\ stored' = stored /\ revoked' \subseteq Otps \union Tokens
      /\ attempts' \in [Otps -> Nat] /\ resets' = resets
    BY DEF FlowInv, TypeOK, tables
<1>8. \A p \in Resets : proof[p] = None /\ proof'[p] # None => Proved(p)' BY DEF tables
<1>9. Answer(r, q, set, tx) BY <1>1
<1> QED BY <1>3, <1>4, <1>5, <1>6, <1>7, <1>8, <1>9, AnswerKeeps

\* The refusals, which change no table.
LEMMA RefusalsKeep ==
    ASSUME FlowInv, NEW r \in Requests, NEW q \in RequestState,
           \/ Malformed(r, q) \/ LoginRefused(r, q) \/ OrganizationMissing(r, q)
           \/ \E e \in Emails : RegisterRefused(r, q, e) \/ ForgotUnknown(r, q, e)
           \/ ResendRefused(r, q) \/ VerifyRefused(r, q) \/ ResetRefused(r, q) \/ RefreshRefused(r, q)
    PROVE  FlowInv'
<1>1. Refuse(r) /\ UNCHANGED tables
    BY DEF Malformed, RegisterRefused, ForgotUnknown, LoginRefused, ResendRefused,
           VerifyRefused, ResetRefused, RefreshRefused, OrganizationMissing
<1>2. /\ UNCHANGED <<user, code, session, proof, stored, resets>>
      /\ revoked' \subseteq Otps \union Tokens /\ attempts' \in [Otps -> Nat]
    BY <1>1 DEF tables, FlowInv, TypeOK
<1> QED BY <1>1, <1>2, RefuseKeeps

\* A wrong guess is counted, and revokes the code at the limit.
LEMMA WrongKeeps ==
    ASSUME FlowInv, NEW r \in Requests, NEW q \in RequestState, Fits(q), VerifyWrong(r, q)
    PROVE  FlowInv'
<1>1. PICK o \in Compared(q) :
          /\ attempts' = [attempts EXCEPT ![o] = @ + 1]
          /\ revoked' = IF attempts[o] + 1 >= MaxAttempts THEN revoked \union {o} ELSE revoked
    BY DEF VerifyWrong
<1>2. o \in Otps BY ComparedFacts
<1>3. attempts' \in [Otps -> Nat] /\ revoked' \subseteq Otps \union Tokens
    BY <1>1, <1>2 DEF FlowInv, TypeOK
<1>4. Refuse(r) /\ UNCHANGED <<user, code, session, proof, stored, resets>> BY DEF VerifyWrong
<1> QED BY <1>3, <1>4, RefuseKeeps

\* The handlers that issue a code.
LEMMA IssuersKeep ==
    ASSUME FlowInv, NEW r \in Requests, NEW q \in RequestState, Fits(q),
           (\E e \in Emails : Register(r, q, e) \/ ForgotPassword(r, q, e)) \/ Resend(r, q)
    PROVE  FlowInv'
<1>1. Purposes = {"registration", "forgot_password"} BY DEF Purposes
<1>2. ASSUME NEW e \in Emails, Register(r, q, e) PROVE FlowInv'
    <2>1. user' \in [Emails -> {"none", "pending", "active"}]
        BY <1>2 DEF Register, FlowInv, TypeOK
    <2>2. Issue(r, q, e, "registration") BY <1>2 DEF Register
    <2> QED BY <1>1, <2>1, <2>2, IssueKeeps
<1>3. ASSUME NEW e \in Emails, ForgotPassword(r, q, e) PROVE FlowInv'
    <2>1. user' \in [Emails -> {"none", "pending", "active"}]
        BY <1>3 DEF ForgotPassword, FlowInv, TypeOK
    <2>2. Issue(r, q, e, "forgot_password") BY <1>3 DEF ForgotPassword
    <2> QED BY <1>1, <2>1, <2>2, IssueKeeps
<1>4. CASE Resend(r, q)
    <2>1. PICK e, purpose : e = code[q.cookie].email /\ purpose = code[q.cookie].purpose
        OBVIOUS
    <2>2. q.op = "resend" /\ q.cookie # None BY <1>4 DEF Resend, Valid
    <2>3. e \in Emails /\ purpose \in Purposes BY <2>1, <2>2, FlowCookie
    <2>4. Issue(r, q, e, purpose) /\ user' = user BY <1>4, <2>1 DEF Resend
    <2>5. user' \in [Emails -> {"none", "pending", "active"}] BY <2>4 DEF FlowInv, TypeOK
    <2> QED BY <1>1, <2>3, <2>4, <2>5, IssueKeeps
<1> QED BY <1>2, <1>3, <1>4

\* The handlers that answer with a session.
LEMMA LoginKeeps ==
    ASSUME FlowInv, NEW r \in Requests, NEW q \in RequestState, Fits(q),
           NEW e \in Emails, Login(r, q, e)
    PROVE  FlowInv'
<1>1. PICK t \in Tokens :
          /\ session[t] = None
          /\ session' = [session EXCEPT ![t] = [email |-> e, parent |-> None, at |-> now]]
          /\ Answer(r, q, SetSession(t), [Nothing EXCEPT !.store = {t}])
    BY DEF Login
<1>2. PICK row : row = [email |-> e, parent |-> None, at |-> now] OBVIOUS
<1>3. row \in SessionRow BY <1>2 DEF SessionRow, FlowInv, TypeOK
<1>4. PICK tx : tx = [Nothing EXCEPT !.store = {t}] OBVIOUS
<1>5. tx \in Writes /\ tx.store = {t} BY <1>4 DEF Nothing, Writes
<1>6. PICK set : set = SetSession(t) OBVIOUS
<1>7. /\ set \in Settings /\ DOMAIN set = {"access_token", "refresh_token"}
      /\ set["access_token"] = t /\ set["refresh_token"] = t
    BY <1>6, SetSessionFacts
<1>8. session' = [session EXCEPT ![t] = row] /\ Answer(r, q, set, tx)
    BY <1>1, <1>2, <1>4, <1>6
<1>9. /\ user' \in [Emails -> {"none", "pending", "active"}]
      /\ revoked' \subseteq Otps \union Tokens
      /\ UNCHANGED <<code, proof, stored, attempts, resets>>
    BY DEF Login, FlowInv, TypeOK
<1> QED BY <1>1, <1>3, <1>5, <1>7, <1>8, <1>9, SessionKeeps

LEMMA RefreshKeeps ==
    ASSUME FlowInv, NEW r \in Requests, NEW q \in RequestState, Fits(q), Refresh(r, q)
    PROVE  FlowInv'
<1>1. PICK t : t = q.cookie OBVIOUS
<1>2. q.op = "refresh" /\ t # None BY <1>1 DEF Refresh
<1>3. Minted("refresh_token", t) BY <1>1, <1>2, ReadsFacts DEF Fits
<1>5. t \in Tokens /\ session[t] # None BY <1>2, <1>3 DEF Minted
<1>6. session[t].email \in Emails BY <1>5 DEF FlowInv, TypeOK, SessionRow
<1>7. PICK n \in Tokens :
          /\ session[n] = None
          /\ session' = [session EXCEPT ![n] =
                            [email |-> session[t].email, parent |-> t, at |-> now]]
          /\ Answer(r, q, SetSession(n), [Nothing EXCEPT !.store = {n}, !.revoke = {t}])
    BY <1>1 DEF Refresh
<1>8. PICK row : row = [email |-> session[t].email, parent |-> t, at |-> now] OBVIOUS
<1>9. row \in SessionRow BY <1>5, <1>6, <1>8 DEF SessionRow, FlowInv, TypeOK
<1>10. PICK tx : tx = [Nothing EXCEPT !.store = {n}, !.revoke = {t}] OBVIOUS
<1>11. tx \in Writes /\ tx.store = {n} BY <1>5, <1>10 DEF Nothing, Writes
<1>12. PICK set : set = SetSession(n) OBVIOUS
<1>13. /\ set \in Settings /\ DOMAIN set = {"access_token", "refresh_token"}
       /\ set["access_token"] = n /\ set["refresh_token"] = n
    BY <1>12, SetSessionFacts
<1>14. session' = [session EXCEPT ![n] = row] /\ Answer(r, q, set, tx)
    BY <1>7, <1>8, <1>10, <1>12
<1>15. /\ user' \in [Emails -> {"none", "pending", "active"}]
       /\ revoked' \subseteq Otps \union Tokens
       /\ UNCHANGED <<code, proof, stored, attempts, resets>>
    BY DEF Refresh, FlowInv, TypeOK
<1> QED BY <1>7, <1>9, <1>11, <1>13, <1>14, <1>15, SessionKeeps

LEMMA CompleteKeeps ==
    ASSUME FlowInv, NEW r \in Requests, NEW q \in RequestState, Fits(q),
           CompleteRegistration(r, q)
    PROVE  FlowInv'
<1>1. PICK o : o = q.cookie OBVIOUS
<1>2. o \in Compared(q) BY <1>1 DEF CompleteRegistration
<1>3. o \in Otps /\ code[o].email \in Emails BY <1>2, ComparedFacts
<1>4. PICK t \in Tokens :
          /\ session[t] = None
          /\ session' = [session EXCEPT ![t] =
                            [email |-> code[o].email, parent |-> None, at |-> now]]
          /\ Answer(r, q,
                    [c \in {"access_token", "refresh_token", "otp_token"} |->
                        IF c = "otp_token" THEN None ELSE t],
                    [Nothing EXCEPT !.store = {t}])
    BY <1>1 DEF CompleteRegistration
<1>5. PICK row : row = [email |-> code[o].email, parent |-> None, at |-> now] OBVIOUS
<1>6. row \in SessionRow BY <1>3, <1>5 DEF SessionRow, FlowInv, TypeOK
<1>7. PICK tx : tx = [Nothing EXCEPT !.store = {t}] OBVIOUS
<1>8. tx \in Writes /\ tx.store = {t} BY <1>7 DEF Nothing, Writes
<1>9. PICK set : set = [c \in {"access_token", "refresh_token", "otp_token"} |->
                           IF c = "otp_token" THEN None ELSE t]
    OBVIOUS
<1>10. /\ set \in [{"access_token", "refresh_token", "otp_token"} -> Ids \union {None}]
       /\ DOMAIN set = {"access_token", "refresh_token", "otp_token"}
       /\ set["access_token"] = t /\ set["refresh_token"] = t /\ set["otp_token"] = None
    BY <1>9 DEF Ids
<1>11. set \in Settings BY <1>10, SettingsIntro DEF Cookies
<1>12. session' = [session EXCEPT ![t] = row] /\ Answer(r, q, set, tx)
    BY <1>4, <1>5, <1>7, <1>9
<1>13. /\ user' \in [Emails -> {"none", "pending", "active"}]
       /\ revoked' \subseteq Otps \union Tokens
       /\ UNCHANGED <<code, proof, stored, attempts, resets>>
    BY <1>1, <1>3 DEF CompleteRegistration, FlowInv, TypeOK
<1> QED BY <1>4, <1>6, <1>8, <1>10, <1>11, <1>12, <1>13, SessionKeeps

\* A reset token is minted for the code it is traded for.
LEMMA TradeKeeps ==
    ASSUME FlowInv, NEW r \in Requests, NEW q \in RequestState, Fits(q), VerifyForgot(r, q)
    PROVE  FlowInv'
<1>1. PICK o : o = q.cookie OBVIOUS
<1>2. q.op = "verify_forgot" /\ o \in Compared(q) BY <1>1 DEF VerifyForgot
<1>3. /\ o \in Otps /\ code[o] # None /\ code[o].email \in Emails
      /\ code[o].purpose = "forgot_password" /\ code[o].at + OtpExpire > now
    BY <1>2, ComparedFacts, PurposeFacts
<1>4. PICK p \in Resets :
          /\ proof[p] = None
          /\ proof' = [proof EXCEPT ![p] = [email |-> code[o].email, code |-> o, at |-> now]]
          /\ Answer(r, q,
                    [c \in {"otp_token", "reset_token"} |-> IF c = "otp_token" THEN None ELSE p],
                    [Nothing EXCEPT !.revoke = {o}])
          /\ UNCHANGED <<user, code, session, stored, revoked, attempts, resets>>
    BY <1>1 DEF VerifyForgot
<1>5. PICK row : row = [email |-> code[o].email, code |-> o, at |-> now] OBVIOUS
<1>6. /\ row \in ProofRow /\ row # None
      /\ row.email = code[o].email /\ row.code = o /\ row.at = now
    BY <1>3, <1>5, NoneAssumption DEF ProofRow, FlowInv, TypeOK
<1>7. proof' = [proof EXCEPT ![p] = row] BY <1>4, <1>5
<1>8. proof' \in [Resets -> ProofRow \union {None}] /\ proof'[p] = row
    BY <1>6, <1>7 DEF FlowInv, TypeOK
<1>9. Grows BY <1>4, <1>7 DEF Grows, FlowInv, TypeOK
<1>10. PICK tx : tx = [Nothing EXCEPT !.revoke = {o}] OBVIOUS
<1>11. tx \in Writes /\ tx.store = {} BY <1>3, <1>10 DEF Nothing, Writes
<1>12. PICK set : set = [c \in {"otp_token", "reset_token"} |->
                            IF c = "otp_token" THEN None ELSE p]
    OBVIOUS
<1>13. /\ set \in [{"otp_token", "reset_token"} -> Ids \union {None}]
       /\ DOMAIN set = {"otp_token", "reset_token"}
       /\ set["reset_token"] = p /\ set["otp_token"] = None
    BY <1>12 DEF Ids
<1>14. set \in Settings BY <1>13, SettingsIntro DEF Cookies
<1>15. Answer(r, q, set, tx) BY <1>4, <1>10, <1>12
<1>16. \A c \in DOMAIN set : Minted(c, set[c])' BY <1>6, <1>8, <1>13 DEF Minted
<1>17. Paired(set) BY <1>13 DEF Paired
<1>18. RowsMinted(tx.store)' BY <1>11 DEF RowsMinted
<1>19. \A p2 \in Resets : proof[p2] = None /\ proof'[p2] # None => Proved(p2)'
    <2>1. Proved(p)'
        <3>1. now < code[o].at + OtpExpire
            <4>1. code[o].at \in Nat BY <1>3 DEF FlowInv, TypeOK, CodeRow
            <4> QED BY <1>3, <4>1, ConstantsAssumption DEF FlowInv, TypeOK
        <3> QED BY <1>3, <1>4, <1>6, <1>8, <3>1 DEF Proved
    <2>2. \A p2 \in Resets \ {p} : proof'[p2] = proof[p2] BY <1>7 DEF FlowInv, TypeOK
    <2> QED BY <2>1, <2>2 DEF Proved
<1>20. /\ user' \in [Emails -> {"none", "pending", "active"}]
       /\ code' \in [Otps -> CodeRow \union {None}]
       /\ session' \in [Tokens -> SessionRow \union {None}]
       /\ stored' = stored /\ revoked' \subseteq Otps \union Tokens
       /\ attempts' \in [Otps -> Nat] /\ resets' = resets
    BY <1>4 DEF FlowInv, TypeOK
<1> QED BY <1>8, <1>9, <1>11, <1>14, <1>15, <1>16, <1>17, <1>18, <1>19, <1>20, AnswerKeeps

\* The reset and the logout, whose writes are left to their commit.
LEMMA ResetKeeps ==
    ASSUME FlowInv, NEW r \in Requests, NEW q \in RequestState, Fits(q), ResetPassword(r, q)
    PROVE  FlowInv'
<1>1. PICK p : p = q.cookie OBVIOUS
<1>2. q.op = "reset" /\ p # None BY <1>1 DEF ResetPassword, Unexpired
<1>3. Minted("reset_token", p) BY <1>1, <1>2, ReadsFacts DEF Fits
<1>4. p \in Resets BY <1>2, <1>3 DEF Minted
<1>5. PICK R : R = Active(proof[p].email, "forgot_password") \union Live(proof[p].email)
    OBVIOUS
<1>6. R \subseteq Otps \union Tokens BY <1>5, QueryFacts
<1>7. PICK tx : tx = [Nothing EXCEPT !.reset = p, !.revoke = R] OBVIOUS
<1>8. tx \in Writes /\ tx.store = {} BY <1>4, <1>6, <1>7 DEF Nothing, Writes
<1>9. Answer(r, q, [c \in {"reset_token", "otp_token"} |-> None], tx) /\ UNCHANGED tables
    BY <1>1, <1>5, <1>7 DEF ResetPassword, ClearReset
<1>10. {"reset_token", "otp_token"} \subseteq Cookies BY DEF Cookies
<1> QED BY <1>8, <1>9, <1>10, ClearKeeps

LEMMA LogoutKeeps ==
    ASSUME FlowInv, NEW r \in Requests, NEW q \in RequestState, Fits(q), Logout(r, q)
    PROVE  FlowInv'
<1>1. PICK R : R = IF q.cookie # None /\ now < session[q.cookie].at + RefreshExpire
                   THEN Live(session[q.cookie].email) ELSE {}
    OBVIOUS
<1>2. R \subseteq Otps \union Tokens BY <1>1, QueryFacts
<1>3. PICK tx : tx = [Nothing EXCEPT !.revoke = R] OBVIOUS
<1>4. tx \in Writes /\ tx.store = {} BY <1>2, <1>3 DEF Nothing, Writes
<1>5. /\ Answer(r, q, [c \in {"refresh_token", "access_token", "otp_token"} |-> None], tx)
      /\ UNCHANGED tables
    BY <1>1, <1>3 DEF Logout
<1>6. {"refresh_token", "access_token", "otp_token"} \subseteq Cookies BY DEF Cookies
<1> QED BY <1>4, <1>5, <1>6, ClearKeeps

\* Every handler keeps the invariant.
LEMMA ServeKeeps ==
    ASSUME FlowInv, NEW r \in Requests, NEW q \in Arriving(r), Serve(r, q)
    PROVE  FlowInv'
<1>1. q \in RequestState /\ Fits(q) BY ArrivingFits
<1> QED BY <1>1, RefusalsKeep, WrongKeeps, IssuersKeep, LoginKeeps, RefreshKeeps, CompleteKeeps,
           TradeKeeps, ResetKeeps, LogoutKeeps DEF Serve

----------------------------------------------------------------------------
(* Sending, committing and delivering                                      *)

\* The invariant survives a step that mints nothing and leaves a request with a
\* record that fits.
LEMMA StepKeeps ==
    ASSUME FlowInv, NEW r \in Requests, NEW w \in RequestState, Fits(w),
           wire' = [wire EXCEPT ![r] = w],
           UNCHANGED <<now, user, code, session, proof, attempts>>,
           stored' \subseteq Otps \union Tokens, RowsMinted(stored)',
           revoked' \subseteq Otps \union Tokens,
           resets' \in [Resets -> Nat], faults' \in Nat,
           jar' \in [Browsers -> Jars], JarCoherent', HistoryFits',
           \A b \in Browsers, c \in Cookies : Minted(c, jar[b][c])'
    PROVE  FlowInv'
<1>1. Grows BY DEF Grows
<1>2. Fits(w)' BY <1>1, FitsGrows
<1>3. /\ now' \in Nat
      /\ user' \in [Emails -> {"none", "pending", "active"}]
      /\ code' \in [Otps -> CodeRow \union {None}]
      /\ session' \in [Tokens -> SessionRow \union {None}]
      /\ proof' \in [Resets -> ProofRow \union {None}]
      /\ attempts' \in [Otps -> Nat]
    BY DEF FlowInv, TypeOK
<1> QED BY <1>1, <1>2, <1>3, RequestKeeps

\* The browsers keep their cookies.
LEMMA JarsKept ==
    ASSUME FlowInv, UNCHANGED <<jar, code, session, proof>>
    PROVE  /\ jar' \in [Browsers -> Jars] /\ JarCoherent'
           /\ \A b \in Browsers, c \in Cookies : Minted(c, jar[b][c])'
BY DEF FlowInv, TypeOK, JarCoherent, Minted

\* The tables keep their rows.
LEMMA TablesKept ==
    ASSUME FlowInv, UNCHANGED tables
    PROVE  /\ UNCHANGED <<user, code, session, proof, attempts>>
           /\ stored' \subseteq Otps \union Tokens /\ RowsMinted(stored)'
           /\ revoked' \subseteq Otps \union Tokens /\ resets' \in [Resets -> Nat]
BY DEF FlowInv, TypeOK, RowsMinted, tables

\* The record of a request after its commit, or after its answer, fits.
LEMMA AfterFits ==
    ASSUME FlowInv, NEW r \in Requests, wire' = AfterCommit(r) \/ wire' = AfterAnswer(r)
    PROVE  \E w \in RequestState : Fits(w) /\ wire' = [wire EXCEPT ![r] = w]
<1>1. PICK v : v = wire[r] OBVIOUS
<1>2. /\ v \in RequestState /\ Fits(v) /\ v.op \in Ops /\ v.tx \in Writes
    BY <1>1 DEF FlowInv, TypeOK, RequestState
<1>3. CASE wire' = Over(r) BY <1>3, IdleFits DEF Over
<1>4. CASE wire' = [wire EXCEPT ![r] = [v EXCEPT !.pc = "committed", !.tx = Nothing]]
    <2>1. PICK w : w = [v EXCEPT !.pc = "committed", !.tx = Nothing] OBVIOUS
    <2>2. Nothing \in Writes /\ RowsMinted(Nothing.store)
        BY DEF Nothing, Writes, RowsMinted
    <2>3. /\ w \in RequestState /\ w.op = v.op /\ w.cookie = v.cookie /\ w.set = v.set
          /\ w.tx = Nothing
        BY <1>2, <2>1, <2>2 DEF RequestState
    <2>4. Fits(w) BY <1>2, <2>2, <2>3 DEF Fits, Paired
    <2> QED BY <1>4, <2>1, <2>3, <2>4
<1>5. CASE wire' = [wire EXCEPT ![r] = [Idle EXCEPT !.pc = "answered", !.op = v.op, !.tx = v.tx]]
    <2>1. PICK w : w = [Idle EXCEPT !.pc = "answered", !.op = v.op, !.tx = v.tx]
        OBVIOUS
    <2>2. Idle.cookie = None /\ Idle.set = NoCookies BY DEF Idle
    <2>3. /\ w \in RequestState /\ w.op = v.op /\ w.cookie = None /\ w.set = NoCookies
          /\ w.tx = v.tx
        BY <1>2, <2>1, <2>2, IdleFits DEF RequestState
    <2>4. DOMAIN w.set = {} BY <2>3 DEF NoCookies
    <2>5. RowsMinted(w.tx.store) BY <1>2, <2>3 DEF Fits
    <2>6. Fits(w) BY <2>3, <2>4, <2>5 DEF Fits, Paired, Minted
    <2> QED BY <1>5, <2>1, <2>3, <2>6
<1>6. \/ wire' = Over(r)
      \/ wire' = [wire EXCEPT ![r] = [v EXCEPT !.pc = "committed", !.tx = Nothing]]
      \/ wire' = [wire EXCEPT ![r] = [Idle EXCEPT !.pc = "answered", !.op = v.op, !.tx = v.tx]]
    <2>1. CASE wire' = AfterCommit(r)
        <3>1. CASE v.pc = "answered" BY <1>1, <2>1, <3>1 DEF AfterCommit
        <3>2. CASE v.pc # "answered" BY <1>1, <2>1, <3>2 DEF AfterCommit
        <3> QED BY <3>1, <3>2
    <2>2. CASE wire' = AfterAnswer(r)
        <3>1. CASE v.pc = "committed" BY <1>1, <2>2, <3>1 DEF AfterAnswer
        <3>2. CASE v.pc # "committed" BY <1>1, <2>2, <3>2 DEF AfterAnswer
        <3> QED BY <3>1, <3>2
    <2> QED BY <2>1, <2>2
<1> QED BY <1>3, <1>4, <1>5, <1>6

LEMMA SendKeeps ==
    ASSUME FlowInv, NEW r \in Requests, NEW b \in Browsers, NEW op \in Ops, Send(r, b, op)
    PROVE  FlowInv'
<1>1. PICK w : w = Request(b, op) OBVIOUS
<1>2. w \in RequestState /\ Fits(w) BY <1>1, RequestFits
<1>3. wire' = [wire EXCEPT ![r] = w] /\ UNCHANGED <<now, tables, jar, faults, history>>
    BY <1>1 DEF Send
<1>4. UNCHANGED <<jar, code, session, proof>> /\ UNCHANGED tables BY <1>3 DEF tables
<1>5. faults' \in Nat BY <1>3 DEF FlowInv, TypeOK
<1>6. HistoryFits' BY <1>3, HistoryKept
<1> QED BY <1>2, <1>3, <1>4, <1>5, <1>6, TablesKept, JarsKept, StepKeeps

LEMMA CommitKeeps ==
    ASSUME FlowInv, NEW r \in Requests, Commit(r)
    PROVE  FlowInv'
<1>1. PICK w \in RequestState : Fits(w) /\ wire' = [wire EXCEPT ![r] = w]
    BY AfterFits DEF Commit
<1>2. wire[r].tx \in Writes /\ RowsMinted(wire[r].tx.store)
    BY DEF FlowInv, TypeOK, RequestState, Fits
<1>3. stored' \subseteq Otps \union Tokens /\ revoked' \subseteq Otps \union Tokens
    BY <1>2 DEF Commit, Writes, FlowInv, TypeOK
<1>4. RowsMinted(stored)' BY <1>2 DEF Commit, FlowInv, RowsMinted
<1>5. resets' \in [Resets -> Nat] BY DEF Commit, FlowInv, TypeOK
<1>6. UNCHANGED <<now, user, code, session, proof, attempts, jar>> /\ faults' \in Nat
    BY DEF Commit, FlowInv, TypeOK
<1>7. HistoryFits' BY DEF Commit, FlowInv, TypeOK, HistoryFits
<1> QED BY <1>1, <1>3, <1>4, <1>5, <1>6, <1>7, JarsKept, StepKeeps

\* A fault leaves tables and cookies as they are.
LEMMA FaultKeeps ==
    ASSUME FlowInv, NEW r \in Requests, CommitFails(r) \/ Lose(r) \/ Fail(r)
    PROVE  FlowInv'
<1>1. \E w \in RequestState : Fits(w) /\ wire' = [wire EXCEPT ![r] = w]
    <2>1. CASE CommitFails(r) \/ Lose(r) BY <2>1, AfterFits DEF CommitFails, Lose
    <2>2. CASE Fail(r) BY <2>2, IdleFits DEF Fail, Over
    <2> QED BY <2>1, <2>2
<1>2. PICK w \in RequestState : Fits(w) /\ wire' = [wire EXCEPT ![r] = w] BY <1>1
<1>3. UNCHANGED <<now, tables, jar>> /\ faults' \in Nat
    BY DEF CommitFails, Lose, Fail, FlowInv, TypeOK
<1>4. UNCHANGED <<jar, code, session, proof>> /\ UNCHANGED tables BY <1>3 DEF tables
<1>5. HistoryFits' BY DEF CommitFails, Lose, Fail, FlowInv, TypeOK, HistoryFits
<1> QED BY <1>2, <1>3, <1>4, <1>5, TablesKept, JarsKept, StepKeeps

\* An answer that fits leaves a browser with a jar that does.
LEMMA DeliverKeeps ==
    ASSUME FlowInv, NEW r \in Requests, Deliver(r)
    PROVE  FlowInv'
<1> DEFINE merged(b) == [c \in Cookies |-> IF c \in DOMAIN wire[r].set THEN wire[r].set[c]
                                           ELSE jar[b][c]]
<1>1. PICK w \in RequestState : Fits(w) /\ wire' = [wire EXCEPT ![r] = w]
    BY AfterFits DEF Deliver
<1>2. UNCHANGED <<now, tables, faults, history>> BY DEF Deliver
<1>3. UNCHANGED <<code, session, proof>> /\ UNCHANGED tables /\ faults' \in Nat
    BY <1>2 DEF tables, FlowInv, TypeOK
<1>4. \A b \in Browsers : jar'[b] = jar[b] \/ jar'[b] = merged(b)
    BY DEF Deliver, FlowInv, TypeOK
<1>5. PICK set : set = wire[r].set OBVIOUS
<1>6. set \in Settings /\ Paired(set) /\ \A c \in DOMAIN set : Minted(c, set[c])
    BY <1>5 DEF FlowInv, TypeOK, RequestState, Fits
<1>7. \A c \in DOMAIN set : set[c] \in Ids \union {None} BY <1>6 DEF Minted, Ids
<1>8. ASSUME NEW b \in Browsers
      PROVE  /\ merged(b) \in Jars
             /\ \A c \in Cookies : Minted(c, merged(b)[c])
             /\ merged(b)["access_token"] # None /\ merged(b)["refresh_token"] # None =>
                    merged(b)["access_token"] = merged(b)["refresh_token"]
    <2>1. jar[b] \in Jars /\ \A c \in Cookies : Minted(c, jar[b][c]) BY DEF FlowInv, TypeOK
    <2>2. merged(b) \in Jars BY <1>5, <1>7, <2>1 DEF Jars
    <2>3. \A c \in Cookies : Minted(c, merged(b)[c]) BY <1>5, <1>6, <2>1
    <2>4. jar[b]["access_token"] # None /\ jar[b]["refresh_token"] # None =>
              jar[b]["access_token"] = jar[b]["refresh_token"]
        BY DEF FlowInv, JarCoherent
    <2>5. merged(b)["access_token"] # None /\ merged(b)["refresh_token"] # None =>
              merged(b)["access_token"] = merged(b)["refresh_token"]
        BY <1>5, <1>6, <2>4 DEF Paired, Cookies
    <2> QED BY <2>2, <2>3, <2>5
<1> HIDE DEF merged
<1>9. jar' \in [Browsers -> Jars]
    <2>1. DOMAIN jar' = Browsers /\ jar' = [b \in Browsers |-> jar'[b]]
        BY DEF Deliver, FlowInv, TypeOK
    <2>2. \A b \in Browsers : jar'[b] \in Jars BY <1>4, <1>8 DEF FlowInv, TypeOK
    <2> QED BY <2>1, <2>2
<1>10. JarCoherent' BY <1>4, <1>8 DEF JarCoherent, FlowInv
<1>11. ASSUME NEW b \in Browsers, NEW c \in Cookies PROVE Minted(c, jar[b][c])'
    <2>1. PICK v : v = jar'[b][c] OBVIOUS
    <2>2. Minted(c, v) BY <1>4, <1>8, <2>1 DEF FlowInv
    <2> QED BY <1>3, <2>1, <2>2 DEF Minted
<1>12. UNCHANGED <<now, user, code, session, proof, attempts>> BY <1>2 DEF tables
<1>13. HistoryFits' BY <1>2, HistoryKept
<1> QED BY <1>1, <1>3, <1>9, <1>10, <1>11, <1>12, <1>13, TablesKept, StepKeeps

\* Time passes, or a browser drops a cookie: nothing is left that was not there.
LEMMA TimeKeeps ==
    ASSUME FlowInv, now' \in Nat, UNCHANGED <<tables, wire, faults, history>>,
           jar' \in [Browsers -> Jars],
           \A b \in Browsers, c \in Cookies : jar'[b][c] \in {jar[b][c], None}
    PROVE  FlowInv'
<1>1. TypeOK' BY DEF FlowInv, TypeOK, tables, history
<1>2. JarCoherent'
    <2> SUFFICES ASSUME NEW b \in Browsers,
                        jar'[b]["access_token"] # None, jar'[b]["refresh_token"] # None
                 PROVE  jar'[b]["access_token"] = jar'[b]["refresh_token"]
        BY DEF JarCoherent
    <2>1. /\ jar'[b]["access_token"] = jar[b]["access_token"]
          /\ jar'[b]["refresh_token"] = jar[b]["refresh_token"]
        BY DEF Cookies
    <2> QED BY <2>1 DEF FlowInv, JarCoherent
<1>3. ASSUME NEW b \in Browsers, NEW c \in Cookies PROVE Minted(c, jar[b][c])'
    <2>1. PICK v : v = jar'[b][c] OBVIOUS
    <2>2. Minted(c, jar[b][c]) BY DEF FlowInv
    <2>3. Minted(c, v) BY <2>1, <2>2 DEF Minted
    <2> QED BY <2>1, <2>3 DEF Minted, tables
<1>4. \A r \in Requests : Fits(wire[r])'
    BY DEF FlowInv, Fits, Paired, RowsMinted, Minted, tables
<1>5. RowsMinted(stored)' BY DEF FlowInv, RowsMinted, tables
<1>6. \A p \in Resets : proof'[p] # None => Proved(p)' BY DEF FlowInv, Proved, tables
<1> QED BY <1>1, <1>2, <1>3, <1>4, <1>5, <1>6 DEF FlowInv

----------------------------------------------------------------------------
(* Theorems                                                                *)

LEMMA InitFlows == Init => FlowInv
<1> SUFFICES ASSUME Init PROVE FlowInv OBVIOUS
<1>1. \A b \in Browsers : jar[b] \in Jars /\ \A c \in Cookies : jar[b][c] = None
    BY DEF Init, Jars
<1>2. TypeOK BY <1>1, IdleFits DEF Init, TypeOK
<1>3. JarCoherent BY <1>1 DEF JarCoherent, Cookies
<1>4. \A b \in Browsers, c \in Cookies : Minted(c, jar[b][c]) BY <1>1 DEF Minted
<1>5. \A r \in Requests : Fits(wire[r]) BY IdleFits DEF Init
<1>6. RowsMinted(stored) BY DEF Init, RowsMinted
<1>7. \A p \in Resets : proof[p] # None => Proved(p) BY DEF Init
<1> QED BY <1>2, <1>3, <1>4, <1>5, <1>6, <1>7 DEF FlowInv

LEMMA StepFlows == FlowInv /\ [Next]_vars => FlowInv'
<1> SUFFICES ASSUME FlowInv, [Next]_vars PROVE FlowInv' OBVIOUS
<1>1. ASSUME NEW r \in Requests, NEW b \in Browsers, NEW op \in Ops, Send(r, b, op)
      PROVE  FlowInv'
    BY <1>1, SendKeeps
<1>2. ASSUME NEW r \in Requests, NEW q \in Arriving(r), Serve(r, q) PROVE FlowInv'
    BY <1>2, ServeKeeps
<1>3. ASSUME NEW r \in Requests, Commit(r) PROVE FlowInv' BY <1>3, CommitKeeps
<1>4. ASSUME NEW r \in Requests, CommitFails(r) \/ Lose(r) \/ Fail(r) PROVE FlowInv'
    BY <1>4, FaultKeeps
<1>5. ASSUME NEW r \in Requests, Deliver(r) PROVE FlowInv' BY <1>5, DeliverKeeps
<1>6. CASE Tick
    <2>1. now' \in Nat BY <1>6 DEF Tick, FlowInv, TypeOK
    <2>2. UNCHANGED <<tables, jar, wire, faults, history>> BY <1>6 DEF Tick
    <2>3. jar' \in [Browsers -> Jars] BY <2>2 DEF FlowInv, TypeOK
    <2> QED BY <2>1, <2>2, <2>3, TimeKeeps
<1>7. ASSUME NEW b \in Browsers, NEW c \in Cookies, Forget(b, c) PROVE FlowInv'
    <2>1. jar' = [jar EXCEPT ![b][c] = None] /\ UNCHANGED <<now, tables, wire, faults, history>>
        BY <1>7 DEF Forget
    <2>2. now' \in Nat /\ jar \in [Browsers -> Jars] BY <2>1 DEF FlowInv, TypeOK
    <2>3. jar' \in [Browsers -> Jars] BY <2>1, <2>2 DEF Jars
    <2>4. \A b2 \in Browsers, c2 \in Cookies : jar'[b2][c2] \in {jar[b2][c2], None}
        BY <2>1, <2>2 DEF Jars
    <2> QED BY <2>1, <2>2, <2>3, <2>4, TimeKeeps
<1>8. CASE UNCHANGED vars
    <2>1. now' \in Nat /\ UNCHANGED <<tables, jar, wire, faults, history>>
        BY <1>8 DEF vars, tables, history, FlowInv, TypeOK
    <2>2. jar' \in [Browsers -> Jars] BY <2>1 DEF FlowInv, TypeOK
    <2> QED BY <2>1, <2>2, TimeKeeps
<1> QED BY <1>1, <1>2, <1>3, <1>4, <1>5, <1>6, <1>7, <1>8 DEF Next

\* Everything a browser holds, a request carries or an answer sets was minted
\* before, for the cookie it is in.
THEOREM FlowsSafe == Spec => []FlowInv
BY InitFlows, StepFlows, PTL DEF Spec

THEOREM FlowsTyped == Spec => []TypeOK
<1>1. FlowInv => TypeOK BY DEF FlowInv
<1> QED BY <1>1, FlowsSafe, PTL

\* The access and the refresh cookie of a browser, while it has both, were issued
\* together.
THEOREM JarsCoherent == Spec => []JarCoherent
<1>1. FlowInv => JarCoherent BY DEF FlowInv
<1> QED BY <1>1, FlowsSafe, PTL

----------------------------------------------------------------------------
(* What a step may do with a reset token, and with the guesses of a code   *)

\* A handler that is not a reset leaves no reset to its commit.
LEMMA OnlyResetResets ==
    ASSUME FlowInv, NEW r \in Requests, NEW q \in Arriving(r), Serve(r, q), ~ResetPassword(r, q)
    PROVE  \E w : wire' = [wire EXCEPT ![r] = w] /\ w.tx.reset = None
<1>1. q \in RequestState BY ArrivingFits
<1>2. ASSUME Refuse(r)
      PROVE  \E w : wire' = [wire EXCEPT ![r] = w] /\ w.tx.reset = None
    <2>1. PICK w : w = Idle OBVIOUS
    <2>2. w.tx.reset = None BY <2>1 DEF Idle, Nothing
    <2> QED BY <1>2, <2>1, <2>2 DEF Refuse, Over
<1>3. ASSUME NEW set, NEW tx, tx.reset = None, Answer(r, q, set, tx)
      PROVE  \E w : wire' = [wire EXCEPT ![r] = w] /\ w.tx.reset = None
    <2>1. PICK pc : pc = IF tx = Nothing THEN "committed" ELSE "served" OBVIOUS
    <2>2. PICK w : w = [q EXCEPT !.pc = pc, !.set = set, !.tx = tx] OBVIOUS
    <2>3. w.tx = tx BY <1>1, <2>2 DEF RequestState
    <2> QED BY <1>3, <2>1, <2>2, <2>3 DEF Answer
<1>4. ASSUME NEW e, NEW purpose, Issue(r, q, e, purpose)
      PROVE  \E o, R : Answer(r, q, SetOtpToken(o),
                              [Nothing EXCEPT !.store = {o}, !.revoke = R])
    BY <1>4 DEF Issue
<1>5. \A S, R : /\ [Nothing EXCEPT !.store = S, !.revoke = R].reset = None
                /\ [Nothing EXCEPT !.store = S].reset = None
                /\ [Nothing EXCEPT !.revoke = R].reset = None
    BY DEF Nothing
<1>6. CASE Refuse(r) BY <1>2, <1>6
<1>7. CASE \E set, tx : tx.reset = None /\ Answer(r, q, set, tx) BY <1>3, <1>7
<1>8. \/ Refuse(r)
      \/ \E set, tx : tx.reset = None /\ Answer(r, q, set, tx)
    <2>1. CASE \/ Malformed(r, q)
               \/ LoginRefused(r, q) \/ OrganizationMissing(r, q)
               \/ \E e \in Emails : RegisterRefused(r, q, e) \/ ForgotUnknown(r, q, e)
               \/ ResendRefused(r, q) \/ VerifyRefused(r, q) \/ ResetRefused(r, q)
               \/ RefreshRefused(r, q) \/ VerifyWrong(r, q)
        BY <2>1 DEF Malformed, RegisterRefused, ForgotUnknown, LoginRefused, ResendRefused,
                    VerifyRefused, ResetRefused, RefreshRefused, VerifyWrong,
                    OrganizationMissing
    <2>2. CASE (\E e \in Emails : Register(r, q, e) \/ ForgotPassword(r, q, e)) \/ Resend(r, q)
        <3>1. \E e, purpose : Issue(r, q, e, purpose)
            BY <2>2 DEF Register, ForgotPassword, Resend
        <3> QED BY <1>4, <1>5, <3>1
    <2>3. CASE \E e \in Emails : Login(r, q, e) BY <1>5, <2>3 DEF Login
    <2>4. CASE Refresh(r, q) BY <1>5, <2>4, SMTT(30), ZenonT(30) DEF Refresh
    <2>5. CASE CompleteRegistration(r, q) BY <1>5, <2>5 DEF CompleteRegistration
    <2>6. CASE VerifyForgot(r, q) BY <1>5, <2>6 DEF VerifyForgot
    <2>7. CASE Logout(r, q) BY <1>5, <2>7 DEF Logout
    <2> QED BY <2>1, <2>2, <2>3, <2>4, <2>5, <2>6, <2>7 DEF Serve
<1> QED BY <1>6, <1>7, <1>8

\* Nor does sending, committing or answering a request.
LEMMA AfterResets ==
    ASSUME FlowInv, NEW r \in Requests, wire' = AfterCommit(r) \/ wire' = AfterAnswer(r)
    PROVE  \E w : /\ wire' = [wire EXCEPT ![r] = w]
                  /\ w.tx.reset = None \/ w.tx.reset = wire[r].tx.reset
<1>1. PICK v : v = wire[r] OBVIOUS
<1>2. v \in RequestState BY <1>1 DEF FlowInv, TypeOK
<1>3. Nothing.reset = None /\ Idle.tx = Nothing BY DEF Nothing, Idle
<1>4. CASE wire' = AfterCommit(r)
    <2>1. CASE v.pc = "answered"
        <3>1. PICK w : w = Idle OBVIOUS
        <3>2. w.tx = Nothing BY <1>3, <3>1
        <3> QED BY <1>1, <1>3, <1>4, <2>1, <3>1, <3>2 DEF AfterCommit, Over
    <2>2. CASE v.pc # "answered"
        <3>1. PICK w : w = [v EXCEPT !.pc = "committed", !.tx = Nothing] OBVIOUS
        <3>2. w.tx = Nothing BY <1>2, <3>1 DEF RequestState
        <3> QED BY <1>1, <1>3, <1>4, <2>2, <3>1, <3>2 DEF AfterCommit
    <2> QED BY <2>1, <2>2
<1>5. CASE wire' = AfterAnswer(r)
    <2>1. CASE v.pc = "committed"
        <3>1. PICK w : w = Idle OBVIOUS
        <3>2. w.tx = Nothing BY <1>3, <3>1
        <3> QED BY <1>1, <1>3, <1>5, <2>1, <3>1, <3>2 DEF AfterAnswer, Over
    <2>2. CASE v.pc # "committed"
        <3>1. PICK w : w = [Idle EXCEPT !.pc = "answered", !.op = v.op, !.tx = v.tx]
            OBVIOUS
        <3>2. w.tx = v.tx BY <3>1 DEF Idle
        <3> QED BY <1>1, <1>5, <2>2, <3>1, <3>2 DEF AfterAnswer
    <2> QED BY <2>1, <2>2
<1> QED BY <1>4, <1>5

\* A reset is decided only by ResetPassword, for the token in the cookie of its
\* request.
LEMMA ResetDecided ==
    ASSUME FlowInv, Next, NEW r \in Requests, NEW p \in Resets,
           wire'[r].tx.reset = p, wire[r].tx.reset # p
    PROVE  proof[p] # None /\ now < proof[p].at + TokenExpire
<1>1. p # None BY ConstantsAssumption DEF Ids
<1>2. ASSUME NEW s \in Requests, NEW w, wire' = [wire EXCEPT ![s] = w],
             w.tx.reset = None \/ w.tx.reset = wire[s].tx.reset
      PROVE  FALSE
    BY <1>1, <1>2 DEF FlowInv, TypeOK
<1>3. ASSUME NEW s \in Requests, NEW b \in Browsers, NEW op \in Ops, Send(s, b, op)
      PROVE  FALSE
    <2>1. PICK w : w = Request(b, op) OBVIOUS
    <2>2. w.tx.reset = None BY <2>1 DEF Request, Idle, Nothing
    <2> QED BY <1>2, <1>3, <2>1, <2>2 DEF Send
<1>4. ASSUME NEW s \in Requests, Commit(s) \/ CommitFails(s) \/ Deliver(s) \/ Lose(s)
      PROVE  FALSE
    <2>1. wire' = AfterCommit(s) \/ wire' = AfterAnswer(s)
        BY <1>4 DEF Commit, CommitFails, Deliver, Lose
    <2> QED BY <1>2, <2>1, AfterResets
<1>5. ASSUME NEW s \in Requests, Fail(s) PROVE FALSE
    <2>1. PICK w : w = Idle OBVIOUS
    <2>2. w.tx.reset = None BY <2>1 DEF Idle, Nothing
    <2> QED BY <1>2, <1>5, <2>1, <2>2, SMTT(30), ZenonT(30) DEF Fail, Over
<1>6. ASSUME Tick \/ \E b \in Browsers, c \in Cookies : Forget(b, c) PROVE FALSE
    BY <1>6 DEF Tick, Forget
<1>7. ASSUME NEW s \in Requests, NEW q \in Arriving(s), Serve(s, q)
      PROVE  proof[p] # None /\ now < proof[p].at + TokenExpire
    <2>1. ResetPassword(s, q) BY <1>2, <1>7, OnlyResetResets
    <2>2. q \in RequestState /\ Fits(q) BY ArrivingFits
    <2>3. PICK p2 : p2 = q.cookie OBVIOUS
    <2>4. q.op = "reset" /\ Unexpired(p2) BY <2>1, <2>3 DEF ResetPassword
    <2>5. Minted("reset_token", p2) /\ p2 # None
        BY <2>2, <2>3, <2>4, ReadsFacts DEF Fits, Unexpired
    <2>6. proof[p2] # None BY <2>5 DEF Minted
    <2>7. p = p2
        <3>1. PICK tx : tx = [Nothing EXCEPT !.reset = p2,
                                  !.revoke = Active(proof[p2].email, "forgot_password")
                                             \union Live(proof[p2].email)]
            OBVIOUS
        <3>2. tx.reset = p2 BY <3>1 DEF Nothing
        <3>3. Answer(s, q, ClearReset, tx) BY <2>1, <2>3, <3>1 DEF ResetPassword
        <3>4. PICK pc : pc = IF tx = Nothing THEN "committed" ELSE "served" OBVIOUS
        <3>5. PICK w : w = [q EXCEPT !.pc = pc, !.set = ClearReset, !.tx = tx]
            OBVIOUS
        <3>6. w.tx = tx BY <2>2, <3>5 DEF RequestState
        <3>7. wire' = [wire EXCEPT ![s] = w] BY <3>3, <3>4, <3>5 DEF Answer
        <3>8. wire'[r] = w \/ wire'[r] = wire[r] BY <3>7 DEF FlowInv, TypeOK
        <3> QED BY <3>2, <3>6, <3>8
    <2> QED BY <2>4, <2>6, <2>7 DEF Unexpired
<1> QED BY <1>3, <1>4, <1>5, <1>6, <1>7 DEF Next

\* A password is replaced only within the lifetime of a reset token that was
\* traded for an unexpired forgot_password code of the same account.
THEOREM ResetsAreProved == Spec => ResetsProved
<1> DEFINE P == \A r \in Requests, p \in Resets :
                   wire'[r].tx.reset = p /\ wire[r].tx.reset # p =>
                       /\ proof[p] # None
                       /\ now < proof[p].at + TokenExpire
                       /\ LET o == proof[p].code IN
                          /\ code[o].purpose = "forgot_password"
                          /\ code[o].email = proof[p].email
                          /\ proof[p].at < code[o].at + OtpExpire
<1>1. FlowInv /\ [Next]_vars => [P]_vars
    <2> SUFFICES ASSUME FlowInv, Next PROVE P OBVIOUS
    <2>1. \A r \in Requests, p \in Resets :
              wire'[r].tx.reset = p /\ wire[r].tx.reset # p =>
                  proof[p] # None /\ now < proof[p].at + TokenExpire
        BY ResetDecided
    <2>2. \A p \in Resets : proof[p] # None =>
              LET o == proof[p].code IN
              /\ code[o].purpose = "forgot_password"
              /\ code[o].email = proof[p].email
              /\ proof[p].at < code[o].at + OtpExpire
        BY DEF FlowInv, Proved
    <2> QED BY <2>1, <2>2
<1> QED BY <1>1, FlowsSafe, PTL DEF Spec, ResetsProved

\* A guess counts only against a code of the flow and the email of its cookie.
THEOREM GuessesStayInFlow == Spec => GuessesInFlow
<1> DEFINE P == \A o \in Otps :
                   attempts'[o] > attempts[o] =>
                       \E r \in Requests :
                           /\ wire[r].op \in DOMAIN Purpose
                           /\ code[o].purpose = Purpose[wire[r].op]
                           /\ wire[r].cookie \in Otps
                           /\ code[wire[r].cookie].email = code[o].email
                           /\ code[wire[r].cookie].purpose = code[o].purpose
<1>1. FlowInv /\ [Next]_vars => [P]_vars
    <2> SUFFICES ASSUME FlowInv, Next, NEW o \in Otps, attempts'[o] > attempts[o]
                 PROVE  \E r \in Requests :
                           /\ wire[r].op \in DOMAIN Purpose
                           /\ code[o].purpose = Purpose[wire[r].op]
                           /\ wire[r].cookie \in Otps
                           /\ code[wire[r].cookie].email = code[o].email
                           /\ code[wire[r].cookie].purpose = code[o].purpose
        OBVIOUS
    <2>1. attempts[o] \in Nat /\ attempts' # attempts BY DEF FlowInv, TypeOK
    <2>2. PICK r \in Requests : \E q \in Arriving(r) : Serve(r, q)
        BY <2>1 DEF Next, Send, Commit, CommitFails, Fail, Deliver, Lose, Forget, Tick, tables
    <2>3. PICK q \in Arriving(r) : Serve(r, q) BY <2>2
    <2>4. VerifyWrong(r, q)
        BY <2>1, <2>3, SMTT(30), ZenonT(30)
           DEF Serve, Malformed, Register, RegisterRefused, ForgotPassword,
               ForgotUnknown, Login, LoginRefused, Resend, ResendRefused, VerifyRefused,
               CompleteRegistration, VerifyForgot, ResetPassword, ResetRefused, Refresh,
               RefreshRefused, OrganizationMissing, Logout, Issue, tables
    <2>5. PICK g \in Compared(q) : attempts' = [attempts EXCEPT ![g] = @ + 1]
        BY <2>4 DEF VerifyWrong
    <2>6. q \in RequestState /\ Fits(q) BY ArrivingFits
    <2>7. /\ InFlow(q) /\ q.cookie \in Otps
          /\ g \in Otps /\ code[g].email = code[q.cookie].email
          /\ code[g].purpose = Purpose[q.op] /\ code[q.cookie].purpose = Purpose[q.op]
        BY <2>6, ComparedFacts
    <2>8. g = o BY <2>1, <2>5, <2>7 DEF FlowInv, TypeOK
    <2>9. q.op \in DOMAIN Purpose /\ q.op \in DOMAIN Reads
        BY <2>7, PurposeFacts, ReadsFacts DEF InFlow
    <2>10. q = wire[r] BY <2>9, ArrivingFits
    <2> QED BY <2>7, <2>8, <2>9, <2>10
<1> QED BY <1>1, FlowsSafe, PTL DEF Spec, GuessesInFlow
=============================================================================
