--------------------------- MODULE Wallet_proofs ---------------------------
(***************************************************************************)
(* Theorems about ResVault, the sites made from the templates and the      *)
(* deployment of contracts, for every value of their constants.            *)
(*                                                                         *)
(* Sites (SiteApp): sessions are opened by logins and stay closed after a  *)
(* logout, for either template and any number of requests under way.       *)
(*                                                                         *)
(* Deployment (ContractDeploy): artifacts, registry and temporary files,   *)
(* for any number of wallet jobs and other clients.                        *)
(*                                                                         *)
(* Connections (VaultConnections): keys, connectedNets and connections     *)
(* stay in step, for any sites, nets and requests under way.               *)
(***************************************************************************)
EXTENDS Integers, Sequences, SitePart, DeployPart, VaultPart, TLAPS

-----------------------------------------------------------------------------
(* Sites *)

\* s holds a request or an answer of kind k, and at most one of a login.
Has(s, k) == \E i \in DOMAIN s : s[i].kind = k
OneLogin(s) ==
    \A i, j \in DOMAIN s : s[i].kind = "login" /\ s[j].kind = "login" => i = j

\* Types, as far as the argument needs them.
SiteTypes ==
    /\ isAuthenticated \in BOOLEAN /\ loading \in BOOLEAN /\ site_stored \in BOOLEAN
    /\ loginModal \in BOOLEAN /\ txModal \in BOOLEAN
    /\ crossed \in BOOLEAN /\ twice \in BOOLEAN
    /\ requests \in Seq(Site!Request) /\ posts \in Seq(Site!Post)
    /\ timers \in Nat /\ checks \in Nat

\* A commit is under way only while the form is mounted, so that the handler
\* of Login never takes its answer.
CommitInv ==
    ~crossed => /\ txModal \/ Has(requests, "commit") \/ Has(posts, "commit") => Site!FormMounted
                /\ sessionBy # "commit"

\* A single login goes from the click over the connection check, the request
\* and its answer to the timer, and the token is stored with the timer.
LoginInv ==
    ~crossed /\ ~twice =>
        /\ shown # "login"
        /\ isAuthenticated => site_stored
        /\ timers > 0 => site_stored /\ ~isAuthenticated /\ timers = 1
        /\ checks > 0 => checks = 1 /\ ~Has(requests, "login") /\ ~Has(posts, "login")
        /\ checks > 0 \/ Has(requests, "login") \/ Has(posts, "login") => ~site_stored
        /\ OneLogin(requests) /\ OneLogin(posts)
        /\ ~(Has(requests, "login") /\ Has(posts, "login"))

SiteInv == SiteTypes /\ CommitInv /\ LoginInv

\* The message that is handled leaves the queue.
LEMMA TailKinds ==
  ASSUME NEW s \in Seq(Site!Post), s # <<>>
  PROVE  /\ Tail(s) \in Seq(Site!Post)
         /\ Head(s) \in Site!Post /\ Has(s, Head(s).kind)
         /\ \A k : Has(Tail(s), k) => Has(s, k)
         /\ OneLogin(s) => OneLogin(Tail(s))
         /\ OneLogin(s) /\ Head(s).kind = "login" => ~Has(Tail(s), "login")
<1>1. Len(s) \in Nat /\ Len(s) > 0 /\ DOMAIN s = 1 .. Len(s) OBVIOUS
<1>2. /\ Tail(s) \in Seq(Site!Post) /\ Len(Tail(s)) = Len(s) - 1
      /\ DOMAIN Tail(s) = 1 .. (Len(s) - 1)
      /\ \A i \in 1 .. (Len(s) - 1) : Tail(s)[i] = s[i + 1] /\ i + 1 \in DOMAIN s /\ i + 1 # 1
  BY <1>1
<1>3. Head(s) = s[1] /\ 1 \in DOMAIN s /\ s[1] \in Site!Post BY <1>1
<1>4. \A k : Has(Tail(s), k) => Has(s, k) BY Zenon, <1>2 DEF Has
<1>5. OneLogin(s) => OneLogin(Tail(s))
  <2> SUFFICES ASSUME OneLogin(s), NEW i \in 1 .. (Len(s) - 1), NEW j \in 1 .. (Len(s) - 1),
                      Tail(s)[i].kind = "login", Tail(s)[j].kind = "login"
               PROVE  i = j
    BY Zenon, <1>2 DEF OneLogin
  <2>1. i + 1 = j + 1 BY Zenon, <1>2 DEF OneLogin
  <2> QED BY <1>1, <2>1
<1>6. OneLogin(s) /\ Head(s).kind = "login" => ~Has(Tail(s), "login")
  BY Zenon, <1>2, <1>3 DEF OneLogin, Has
<1>7. Has(s, Head(s).kind) BY Zenon, <1>3 DEF Has
<1> QED BY Zenon, <1>2, <1>3, <1>4, <1>5, <1>6, <1>7

\* A request or an answer is queued.
LEMMA AppendKinds ==
  ASSUME NEW X, NEW s \in Seq(X), NEW e \in X
  PROVE  /\ Append(s, e) \in Seq(X)
         /\ \A k : Has(Append(s, e), k) <=> Has(s, k) \/ e.kind = k
         /\ OneLogin(s) /\ (e.kind = "login" => ~Has(s, "login")) => OneLogin(Append(s, e))
<1>1. Len(s) \in Nat /\ DOMAIN s = 1 .. Len(s) OBVIOUS
<1>2. /\ Append(s, e) \in Seq(X)
      /\ DOMAIN Append(s, e) = 1 .. (Len(s) + 1)
      /\ Append(s, e)[Len(s) + 1] = e
      /\ \A i \in 1 .. Len(s) : Append(s, e)[i] = s[i]
  OBVIOUS
<1>3. 1 .. (Len(s) + 1) = DOMAIN s \cup {Len(s) + 1} BY <1>1
<1> HIDE <1>1
<1>4. \A k : Has(Append(s, e), k) <=> Has(s, k) \/ e.kind = k BY Zenon, <1>1, <1>2, <1>3 DEF Has
<1>5. OneLogin(s) /\ (e.kind = "login" => ~Has(s, "login")) => OneLogin(Append(s, e))
  BY <1>1, <1>2, <1>3 DEF Has, OneLogin
<1> QED BY Zenon, <1>2, <1>4, <1>5

\* A request is answered and leaves the background script.
LEMMA RemoveKinds ==
  ASSUME NEW s \in Seq(Site!Request), NEW n \in DOMAIN s
  PROVE  /\ Site!Without(s, n) \in Seq(Site!Request)
         /\ \A k : Has(Site!Without(s, n), k) => Has(s, k)
         /\ OneLogin(s) => OneLogin(Site!Without(s, n))
         /\ OneLogin(s) /\ s[n].kind = "login" => ~Has(Site!Without(s, n), "login")
<1> DEFINE r == Site!Without(s, n)
           old(i) == IF i < n THEN i ELSE i + 1
<1>1. Len(s) \in Nat /\ n \in 1 .. Len(s) /\ DOMAIN s = 1 .. Len(s) OBVIOUS
<1>2. r \in Seq(Site!Request) /\ Len(r) = Len(s) - 1 BY SMTT(30), <1>1 DEF Site!Without
<1>3. DOMAIN r = 1 .. (Len(s) - 1) BY <1>2
<1>4. \A i \in DOMAIN r : r[i] = s[old(i)] /\ old(i) \in DOMAIN s /\ old(i) # n
  <2> DEFINE a == SubSeq(s, 1, n - 1)
             b == SubSeq(s, n + 1, Len(s))
  <2>1. a \in Seq(Site!Request) /\ Len(a) = n - 1 /\ \A i \in 1 .. (n - 1) : a[i] = s[i] BY <1>1
  <2>2. b \in Seq(Site!Request) /\ Len(b) = Len(s) - n /\ \A i \in 1 .. (Len(s) - n) : b[i] = s[i + n]
    BY SMTT(30), <1>1
  <2>3. r = a \o b BY Zenon DEF Site!Without
  <2> HIDE DEF a, b, r
  <2> SUFFICES ASSUME NEW i \in DOMAIN r
               PROVE  r[i] = s[old(i)] /\ old(i) \in DOMAIN s /\ old(i) # n
    BY Zenon
  <2>4. i \in 1 .. (Len(s) - 1) BY Zenon, <1>3
  <2>5. CASE i < n
    <3>1. r[i] = a[i] BY SMTT(30), <1>1, <2>1, <2>2, <2>3, <2>4, <2>5
    <3> QED BY <1>1, <2>1, <2>4, <2>5, <3>1
  <2>6. CASE i >= n
    <3>1. r[i] = b[i - (n - 1)] BY <1>1, <2>1, <2>2, <2>3, <2>4, <2>6
    <3>2. i - (n - 1) \in 1 .. (Len(s) - n) /\ i - (n - 1) + n = i + 1 /\ ~(i < n)
      BY <1>1, <2>4, <2>6
    <3> QED BY <1>1, <2>2, <2>4, <3>1, <3>2
  <2> QED BY <1>1, <2>4, <2>5, <2>6
<1>5. \A i, j \in DOMAIN r : old(i) = old(j) => i = j BY <1>1, <1>3
<1> HIDE DEF r, old
<1>6. \A k : Has(r, k) => Has(s, k) BY Zenon, <1>4 DEF Has
<1>7. OneLogin(s) => OneLogin(r) BY Zenon, <1>4, <1>5 DEF OneLogin
<1>8. OneLogin(s) /\ s[n].kind = "login" => ~Has(r, "login") BY Zenon, <1>4 DEF OneLogin, Has
<1> QED BY Zenon, <1>2, <1>6, <1>7, <1>8 DEF r

\* A page that is opened for the first time asks for nothing.
LEMMA SiteInit == Site!Init => SiteInv
<1> SUFFICES ASSUME Site!Init PROVE SiteInv BY Zenon
<1>1. requests = <<>> /\ posts = <<>> BY Zenon DEF Site!Init
<1>2. \A k : ~Has(requests, k) /\ ~Has(posts, k) BY <1>1 DEF Has
<1>3. OneLogin(requests) /\ OneLogin(posts) BY <1>1 DEF OneLogin
<1>4. requests \in Seq(Site!Request) /\ posts \in Seq(Site!Post) BY <1>1
<1>5. SiteTypes BY Zenon, <1>4 DEF Site!Init, SiteTypes
<1> QED BY <1>2, <1>3, <1>5 DEF Site!Init, SiteInv, CommitInv, LoginInv

\* The buttons of Login and of the form, Close and the popup's connection
\* change neither a login nor a commit that is under way.
LEMMA ButtonsKeep ==
  ASSUME SiteInv, Site!handleAuthentication \/ Site!handleSubmit \/ Site!CloseModal \/ Site!ToggleConnection
  PROVE  SiteInv'
<1> USE DEF SiteInv, Site!handleAuthentication, Site!handleSubmit, Site!CloseModal, Site!ToggleConnection,
            Site!page, Site!modals, Site!history
<1>1. SiteTypes' BY Zenon DEF SiteTypes
<1>2. UNCHANGED <<isAuthenticated, loading, site_stored, timers, checks, requests, posts,
                  sessionBy, shown, crossed, twice>>
  BY Zenon
<1>3. CommitInv' BY Zenon, <1>2 DEF CommitInv, Site!LoginMounted, Site!FormMounted, SiteTypes
<1>4. LoginInv' BY Zenon, <1>2 DEF LoginInv
<1> QED BY Zenon, <1>1, <1>3, <1>4

\* A logout closes the session; a commit that is under way is recorded.
LEMMA LogoutKeeps ==
  ASSUME SiteInv, Site!handleLogout
  PROVE  SiteInv'
<1> USE DEF SiteInv, Site!handleLogout, Site!modals
<1>1. SiteTypes' BY Zenon DEF SiteTypes
<1>2. CommitInv' BY Zenon DEF CommitInv, Site!UnderWay, Site!Uncovered, Has
<1>3. LoginInv' BY Zenon DEF LoginInv, SiteTypes, Site!LoginMounted, Site!FormMounted
<1> QED BY Zenon, <1>1, <1>2, <1>3

\* A new page has only what sessionStorage holds.
LEMMA ReloadKeeps ==
  ASSUME SiteInv, Site!Reload
  PROVE  SiteInv'
<1>0. requests' \in Seq(Site!Request) /\ posts' \in Seq(Site!Post) BY DEF Site!Reload
<1> USE DEF SiteInv, Site!Reload
<1>1. \A k : ~Has(requests', k) /\ ~Has(posts', k) BY DEF Has
<1>2. OneLogin(requests') /\ OneLogin(posts') BY DEF OneLogin
<1>3. SiteTypes' BY Zenon, <1>0 DEF SiteTypes
<1>4. CommitInv' BY Zenon, <1>1 DEF CommitInv
<1>5. LoginInv' BY <1>1, <1>2 DEF LoginInv
<1> QED BY Zenon, <1>3, <1>4, <1>5

\* A click on Authenticate is the first one of its login, or recorded.
LEMMA AuthenticateKeeps ==
  ASSUME SiteInv, Site!AuthenticateClick
  PROVE  SiteInv'
<1> USE DEF SiteInv, Site!AuthenticateClick, Site!page
<1>1. SiteTypes' BY DEF SiteTypes
<1>2. CommitInv' BY Zenon DEF CommitInv, Site!LoginMounted, Site!FormMounted
<1>3. LoginInv'
  <2> SUFFICES ASSUME ~crossed, ~twice' PROVE LoginInv' BY Zenon DEF LoginInv
  <2>1. ~twice /\ ~(checks > 0) /\ ~site_stored /\ ~Site!UnderWay("login") BY Zenon
  <2>2. ~Has(requests, "login") /\ ~Has(posts, "login") BY Zenon, <2>1 DEF Site!UnderWay, Has
  <2>3. checks' = 1 BY <2>1 DEF SiteTypes
  <2> QED BY Zenon, <2>1, <2>2, <2>3 DEF LoginInv
<1> QED BY Zenon, <1>1, <1>2, <1>3

\* A transaction is submitted from the modal that covers the form.
LEMMA SubmitKeeps ==
  ASSUME SiteInv, Site!handleTransactionSubmit
  PROVE  SiteInv'
<1> DEFINE e == [kind |-> "commit", state |-> "sent"]
<1>1. e \in Site!Request /\ e.kind = "commit" BY Zenon DEF Site!Request, Site!Kind
<1>2. requests' = Append(requests, e) /\ UNCHANGED posts BY Zenon DEF Site!handleTransactionSubmit
<1> HIDE DEF e
<1>3. /\ requests' \in Seq(Site!Request)
      /\ \A k : Has(requests', k) <=> Has(requests, k) \/ k = "commit"
      /\ OneLogin(requests) => OneLogin(requests')
  BY Zenon, <1>1, <1>2, AppendKinds DEF SiteInv, SiteTypes
<1> USE DEF SiteInv, Site!handleTransactionSubmit, Site!page, Site!history
<1>4. SiteTypes' BY Zenon, <1>3 DEF SiteTypes
<1>5. CommitInv' BY Zenon, <1>2, <1>3 DEF CommitInv, Site!LoginMounted, Site!FormMounted
<1>6. LoginInv' BY Zenon, <1>2, <1>3 DEF LoginInv
<1> QED BY Zenon, <1>4, <1>5, <1>6

\* The timer of the one login opens the form with the token in place.
LEMMA TimerKeeps ==
  ASSUME SiteInv, Site!loginTimer
  PROVE  SiteInv'
<1> USE DEF SiteInv, Site!loginTimer, Site!modals, Site!history
<1>1. SiteTypes'
  <2>1. timers' \in Nat BY DEF SiteTypes
  <2> QED BY Zenon, <2>1 DEF SiteTypes
<1>2. CommitInv' BY Zenon DEF CommitInv, Site!LoginMounted, Site!FormMounted
<1>3. LoginInv' BY DEF LoginInv, SiteTypes
<1> QED BY Zenon, <1>1, <1>2, <1>3

\* The component that is mounted handles the answer: Login only those of
\* logins, the form only those of commits, while nothing was recorded.
LEMMA MessageKeeps ==
  ASSUME SiteInv, Site!handleMessage
  PROVE  SiteInv'
<1> DEFINE m == Head(posts)
<1>1. posts # <<>> /\ posts' = Tail(posts) /\ UNCHANGED <<requests, loginModal, txModal, checks, crossed, twice>>
  BY Zenon DEF Site!handleMessage, Site!modals
<1>2. /\ posts' \in Seq(Site!Post)
      /\ m \in Site!Post /\ Has(posts, m.kind)
      /\ \A k : Has(posts', k) => Has(posts, k)
      /\ OneLogin(posts) => OneLogin(posts')
      /\ OneLogin(posts) /\ m.kind = "login" => ~Has(posts', "login")
  BY Zenon, <1>1, TailKinds DEF SiteInv, SiteTypes
<1>3. m.kind \in {"login", "commit"} BY Zenon, <1>2 DEF Site!Post, Site!Kind
<1>4. \/ Site!LoginMounted /\ Site!handleLogin(m.kind)
      \/ Site!LoginMounted /\ Site!showErrorModal
      \/ Site!LoginMounted /\ Site!Ignored
      \/ Site!FormMounted /\ Site!FormHandler(m)
  BY Zenon DEF Site!handleMessage, Site!ReactLoginHandler, Site!VueLoginHandler
<1> HIDE DEF m
<1>5. CASE Site!LoginMounted /\ Site!handleLogin(m.kind)
  <2>1. SiteTypes' BY <1>1, <1>2, <1>5 DEF SiteInv, SiteTypes, Site!handleLogin
  <2>2. CommitInv'
    <3> SUFFICES ASSUME ~crossed PROVE CommitInv' BY Zenon, <1>1 DEF CommitInv
    <3>1. ~txModal /\ ~Has(requests, "commit") /\ ~Has(posts, "commit")
      BY Zenon, <1>5 DEF SiteInv, CommitInv, Site!FormMounted
    <3>2. m.kind = "login" BY Zenon, <1>2, <1>3, <3>1
    <3> QED BY Zenon, <1>1, <1>2, <1>5, <3>1, <3>2 DEF CommitInv, Site!handleLogin
  <2>3. LoginInv'
    <3> SUFFICES ASSUME ~crossed, ~twice PROVE LoginInv' BY Zenon, <1>1 DEF LoginInv
    <3>1. ~Has(posts, "commit") BY Zenon, <1>5 DEF SiteInv, CommitInv, Site!FormMounted
    <3>2. m.kind = "login" /\ Has(posts, "login") BY Zenon, <1>2, <1>3, <3>1
    <3>3. ~site_stored /\ ~isAuthenticated /\ timers = 0 /\ checks = 0 /\ ~Has(requests, "login")
      BY <3>2 DEF SiteInv, LoginInv, SiteTypes
    <3>4. ~Has(posts', "login") /\ ~Has(requests', "login") /\ OneLogin(posts') /\ OneLogin(requests')
      BY Zenon, <1>1, <1>2, <3>2, <3>3 DEF SiteInv, LoginInv
    <3>5. timers' = 1 /\ site_stored' = TRUE /\ isAuthenticated' = isAuthenticated /\ shown' = shown /\ checks' = 0
      BY <1>1, <1>5, <3>3 DEF Site!handleLogin
    <3> QED BY Zenon, <3>3, <3>4, <3>5 DEF SiteInv, LoginInv
  <2> QED BY Zenon, <2>1, <2>2, <2>3 DEF SiteInv
<1>6. CASE Site!LoginMounted /\ (Site!showErrorModal \/ Site!Ignored)
  <2>1. UNCHANGED <<isAuthenticated, site_stored, timers, sessionBy, shown>>
    BY Zenon, <1>6 DEF Site!showErrorModal, Site!Ignored
  <2>2. SiteTypes' BY Zenon, <1>1, <1>2, <1>6, <2>1 DEF SiteInv, SiteTypes, Site!showErrorModal, Site!Ignored
  <2>3. CommitInv'
    <3>1. ~crossed => ~txModal /\ ~Has(requests, "commit") /\ ~Has(posts, "commit") /\ sessionBy # "commit"
      BY Zenon, <1>6 DEF SiteInv, CommitInv, Site!FormMounted
    <3> QED BY Zenon, <1>1, <1>2, <2>1, <3>1 DEF CommitInv
  <2>4. LoginInv' BY Zenon, <1>1, <1>2, <2>1 DEF SiteInv, LoginInv
  <2> QED BY Zenon, <2>2, <2>3, <2>4 DEF SiteInv
<1>7. CASE Site!FormMounted /\ Site!FormHandler(m)
  <2>1. UNCHANGED <<isAuthenticated, loading, site_stored, timers, sessionBy>> /\ shown' \in {shown, m.kind}
    BY Zenon, <1>7 DEF Site!FormHandler
  <2>2. SiteTypes' BY Zenon, <1>1, <1>2, <2>1 DEF SiteInv, SiteTypes
  <2>3. CommitInv' BY Zenon, <1>1, <1>7, <2>1 DEF SiteInv, CommitInv, Site!FormMounted, Site!LoginMounted
  <2>4. LoginInv'
    <3> SUFFICES ASSUME ~crossed, ~twice PROVE LoginInv' BY Zenon, <1>1 DEF LoginInv
    <3>1. isAuthenticated /\ site_stored BY Zenon, <1>7 DEF SiteInv, LoginInv, Site!FormMounted, Site!LoginMounted
    <3>2. m.kind # "login" BY Zenon, <1>2, <3>1 DEF SiteInv, LoginInv
    <3> QED BY Zenon, <1>1, <1>2, <2>1, <3>2 DEF SiteInv, LoginInv
  <2> QED BY Zenon, <2>2, <2>3, <2>4 DEF SiteInv
<1> QED BY Zenon, <1>4, <1>5, <1>6, <1>7

\* The connection check turns into the login request or its answer.
LEMMA CheckKeeps ==
  ASSUME SiteInv, Site!checkConnectionStatus
  PROVE  SiteInv'
<1> DEFINE r == [kind |-> "login", state |-> "sent"]
           e == [kind |-> "login", data |-> "error"]
<1>1. r \in Site!Request /\ e \in Site!Post /\ r.kind = "login" /\ e.kind = "login"
  BY Zenon DEF Site!Request, Site!Post, Site!Kind, Site!Data
<1>2. \/ requests' = Append(requests, r) /\ posts' = posts
      \/ requests' = requests /\ posts' = Append(posts, e)
  BY Zenon DEF Site!checkConnectionStatus
<1>3. UNCHANGED <<isAuthenticated, loading, site_stored, timers, txModal, sessionBy, shown, crossed, twice>>
      /\ loginModal' = FALSE /\ checks > 0 /\ checks' = checks - 1
  BY Zenon DEF Site!checkConnectionStatus, Site!page, Site!history
<1> HIDE DEF r, e
<1>4. requests \in Seq(Site!Request) /\ posts \in Seq(Site!Post) BY Zenon DEF SiteInv, SiteTypes
<1>5. /\ Append(requests, r) \in Seq(Site!Request)
      /\ \A k : Has(Append(requests, r), k) <=> Has(requests, k) \/ k = "login"
      /\ OneLogin(requests) /\ ~Has(requests, "login") => OneLogin(Append(requests, r))
  BY Zenon, <1>1, <1>4, AppendKinds
<1>6. /\ Append(posts, e) \in Seq(Site!Post)
      /\ \A k : Has(Append(posts, e), k) <=> Has(posts, k) \/ k = "login"
      /\ OneLogin(posts) /\ ~Has(posts, "login") => OneLogin(Append(posts, e))
  BY Zenon, <1>1, <1>4, AppendKinds
<1>7. SiteTypes'
  <2>1. requests' \in Seq(Site!Request) /\ posts' \in Seq(Site!Post) BY Zenon, <1>2, <1>4, <1>5, <1>6
  <2>2. checks' \in Nat BY <1>3 DEF SiteInv, SiteTypes
  <2> QED BY Zenon, <1>3, <2>1, <2>2 DEF SiteInv, SiteTypes
<1>8. CommitInv' BY Zenon, <1>2, <1>3, <1>5, <1>6 DEF SiteInv, CommitInv, Site!LoginMounted, Site!FormMounted
<1>9. LoginInv'
  <2> SUFFICES ASSUME ~crossed, ~twice PROVE LoginInv' BY Zenon, <1>3 DEF LoginInv
  <2>1. /\ checks' = 0 /\ ~site_stored /\ ~Has(requests, "login") /\ ~Has(posts, "login")
        /\ OneLogin(requests) /\ OneLogin(posts)
    BY <1>3 DEF SiteInv, LoginInv, SiteTypes
  <2>2. OneLogin(requests') /\ OneLogin(posts') /\ ~(Has(requests', "login") /\ Has(posts', "login"))
    BY Zenon, <1>2, <1>5, <1>6, <2>1
  <2> QED BY <1>3, <2>1, <2>2 DEF SiteInv, LoginInv
<1> QED BY Zenon, <1>7, <1>8, <1>9 DEF SiteInv

\* The background script reads the keys for a request or answers it.
LEMMA BackgroundKeeps ==
  ASSUME SiteInv, NEW n \in DOMAIN requests, Site!ReadKeys(n) \/ Site!Answer(n),
         UNCHANGED <<Site!page, Site!modals, Site!history>>
  PROVE  SiteInv'
<1> DEFINE k == requests[n].kind
<1>0. UNCHANGED <<isAuthenticated, loading, site_stored, timers, loginModal, txModal, checks,
                  sessionBy, shown, crossed, twice>>
  BY Zenon DEF Site!page, Site!modals, Site!history
<1>1. requests \in Seq(Site!Request) /\ posts \in Seq(Site!Post) BY Zenon DEF SiteInv, SiteTypes
<1>2. requests[n] \in Site!Request /\ k \in Site!Kind
  <2>1. requests[n] \in Site!Request BY <1>1
  <2> QED BY Zenon, <2>1 DEF Site!Request
<1>3. CASE Site!ReadKeys(n) /\ connected
  <2>1. requests' = [requests EXCEPT ![n].state = "fetching"] /\ posts' = posts
    BY Zenon, <1>3 DEF Site!ReadKeys
  <2>2. /\ requests' \in Seq(Site!Request) /\ DOMAIN requests' = DOMAIN requests
        /\ \A i \in DOMAIN requests : requests'[i].kind = requests[i].kind
    BY SMTT(30), <1>1, <1>2, <2>1 DEF Site!Request
  <2>3. \A l : Has(requests', l) <=> Has(requests, l) BY Zenon, <2>2 DEF Has
  <2>4. OneLogin(requests) => OneLogin(requests') BY Zenon, <2>2 DEF OneLogin
  <2>5. SiteTypes' BY Zenon, <1>0, <2>1, <2>2 DEF SiteInv, SiteTypes
  <2>6. CommitInv' BY Zenon, <1>0, <2>1, <2>3 DEF SiteInv, CommitInv, Site!LoginMounted, Site!FormMounted
  <2>7. LoginInv' BY Zenon, <1>0, <2>1, <2>3, <2>4 DEF SiteInv, LoginInv
  <2> QED BY Zenon, <2>5, <2>6, <2>7 DEF SiteInv
<1>4. CASE ~(Site!ReadKeys(n) /\ connected)
  <2>1. PICK data \in Site!Data : requests' = Site!Without(requests, n)
                             /\ posts' = Append(posts, [kind |-> k, data |-> data])
    BY Zenon, <1>4 DEF Site!ReadKeys, Site!Answer, Site!Data
  <2> DEFINE e == [kind |-> k, data |-> data]
  <2>2. e \in Site!Post /\ e.kind = k BY Zenon, <1>2 DEF Site!Post
  <2>e. posts' = Append(posts, e) BY Zenon, <2>1
  <2> HIDE DEF e
  <2>3. /\ posts' \in Seq(Site!Post)
        /\ \A l : Has(posts', l) <=> Has(posts, l) \/ l = k
        /\ OneLogin(posts) /\ (k = "login" => ~Has(posts, "login")) => OneLogin(posts')
    BY Zenon, <1>1, <2>2, <2>e, AppendKinds
  <2>4. /\ requests' \in Seq(Site!Request)
        /\ \A l : Has(requests', l) => Has(requests, l)
        /\ OneLogin(requests) => OneLogin(requests')
        /\ OneLogin(requests) /\ k = "login" => ~Has(requests', "login")
    BY Zenon, <1>1, <2>1, RemoveKinds
  <2>5. Has(requests, k) BY Zenon DEF Has
  <2> HIDE DEF k
  <2>6. SiteTypes' BY Zenon, <1>0, <2>3, <2>4 DEF SiteInv, SiteTypes
  <2>7. CommitInv' BY Zenon, <1>0, <2>3, <2>4, <2>5 DEF SiteInv, CommitInv, Site!LoginMounted, Site!FormMounted
  <2>8. LoginInv'
    <3> SUFFICES ASSUME ~crossed, ~twice PROVE LoginInv' BY Zenon, <1>0 DEF LoginInv
    <3>1. OneLogin(requests') /\ OneLogin(posts') /\ ~(Has(requests', "login") /\ Has(posts', "login"))
      BY Zenon, <2>3, <2>4, <2>5 DEF SiteInv, LoginInv
    <3>2. /\ Has(requests', "login") \/ Has(posts', "login")
                => Has(requests, "login") \/ Has(posts, "login")
      BY Zenon, <2>3, <2>4, <2>5
    <3> QED BY Zenon, <1>0, <3>1, <3>2 DEF SiteInv, LoginInv
  <2> QED BY Zenon, <2>6, <2>7, <2>8 DEF SiteInv
<1> QED BY Zenon, <1>3, <1>4

\* Every step of the page and of the scripts keeps the invariant.
LEMMA SiteNext == SiteInv /\ [Site!Next]_(Site!vars) => SiteInv'
<1> SUFFICES ASSUME SiteInv, [Site!Next]_(Site!vars) PROVE SiteInv' BY Zenon
<1>1. CASE Site!handleAuthentication \/ Site!handleSubmit \/ Site!CloseModal \/ Site!ToggleConnection
  BY Zenon, <1>1, ButtonsKeep
<1>2. CASE Site!handleLogout BY Zenon, <1>2, LogoutKeeps
<1>3. CASE Site!Reload BY Zenon, <1>3, ReloadKeeps
<1>4. CASE Site!AuthenticateClick BY Zenon, <1>4, AuthenticateKeeps
<1>5. CASE Site!handleTransactionSubmit BY Zenon, <1>5, SubmitKeeps
<1>6. CASE Site!loginTimer BY Zenon, <1>6, TimerKeeps
<1>7. CASE Site!handleMessage BY Zenon, <1>7, MessageKeeps
<1>8. CASE Site!checkConnectionStatus BY Zenon, <1>8, CheckKeeps
<1>9. CASE Site!submitTransaction \/ Site!submitLoginTransaction
  <2>1. PICK n \in DOMAIN requests : Site!ReadKeys(n) \/ Site!Answer(n)
    BY Zenon, <1>9 DEF Site!submitTransaction, Site!submitLoginTransaction
  <2>2. UNCHANGED <<Site!page, Site!modals, Site!history>>
    BY Zenon, <1>9 DEF Site!submitTransaction, Site!submitLoginTransaction
  <2> QED BY Zenon, <2>1, <2>2, BackgroundKeeps
<1>10. CASE UNCHANGED Site!vars
  <2>1. UNCHANGED <<isAuthenticated, loading, site_stored, timers, loginModal, txModal, checks,
                    requests, posts, sessionBy, shown, crossed, twice>>
    BY Zenon, <1>10 DEF Site!vars, Site!page, Site!modals, Site!history
  <2> QED BY Zenon, <2>1 DEF SiteInv, SiteTypes, CommitInv, LoginInv, Site!FormMounted, Site!LoginMounted
<1> QED BY Zenon, <1>1, <1>2, <1>3, <1>4, <1>5, <1>6, <1>7, <1>8, <1>9, <1>10 DEF Site!Next, Site!Scripts

\* For the React and the Vue templates and any number of requests under way:
\* unless a logout met a commit under way, a session is opened only by the
\* answer to a login; and if logins did not overlap either, the form reports
\* commits only and nobody is logged in again after a logout, although the
\* answers do not say what they answer.
THEOREM SitesHonest == Site!Spec => []SessionsHonest
<1>1. SiteInv => SessionsHonest
  BY Zenon DEF SiteInv, CommitInv, LoginInv, SessionsHonest, Site!SessionsHonest,
         Site!LoginByLogin, Site!FormReportsCommits,
         Site!LogoutSticks
<1> QED BY <1>1, SiteInit, SiteNext, PTL DEF Site!Spec

-----------------------------------------------------------------------------
(* Contract deployment *)

\* Where a job is when its compiled file must be its own, and when a second
\* job on the path would disturb it.
Compiled == {"deploy", "load", "spawn"}
Building == {"solc", "deploy", "load", "spawn", "save"}

Labels == {"idle", "check", "add", "adding", "compile", "solc", "deploy",
           "load", "spawn", "save", "done", "failed"}

\* Types, as far as the argument needs them.
DeployTypes ==
    /\ file \in Source \cup {NoSource}
    /\ waiting \subseteq Wallet
    /\ pc \in [Deploy!Job -> Labels]
    /\ source \in [Deploy!Job -> Source \cup {NoSource}]
    /\ loaded \in [Deploy!Job -> SUBSET Deploy!Key]
    /\ compiled \in [Deploy!File -> Source \cup {NoSource}]
    /\ temps \subseteq Deploy!Job
    /\ registry \subseteq Deploy!Key
    /\ mixed \in BOOLEAN /\ deploy_overlapped \in BOOLEAN
    /\ forgotten \in BOOLEAN /\ deploy_replaced \in BOOLEAN

\* The file a job deploys from was compiled from the job's source: always for
\* type "data", for type "path" while one job builds at a time.
ArtifactInv ==
    /\ \A j \in Deploy!Job :
          /\ j \notin PathClient /\ pc[j] \in Compiled => compiled[j] = source[j]
          /\ j \in PathClient /\ pc[j] \in Compiled /\ ~mixed
                => compiled["MyContract"] = source[j]
    /\ ~mixed => \A j, k \in PathClient :
          pc[j] \in Building /\ pc[k] \in Building => j = k
    /\ \A d \in deployed :
          /\ d.job \in Deploy!Job /\ pc[d.job] # "idle"
          /\ (d.job \in PathClient /\ mixed) \/ d.source = source[d.job]

\* One deploy run at a time has loaded what the registry still holds.
RegistryInv ==
    /\ ~deploy_overlapped => \A j, k \in Deploy!Job :
          pc[j] \in Deploy!Deploying /\ pc[k] \in Deploy!Deploying => j = k
    /\ \A j \in Deploy!Job :
          pc[j] \in {"spawn", "save"} => Deploy!DeploymentKey(j) \notin loaded[j]
    /\ ~deploy_overlapped /\ ~forgotten =>
          /\ \A j \in Deploy!Job :
                /\ pc[j] \in {"spawn", "save"} => loaded[j] = registry
                /\ pc[j] = "done" => Deploy!DeploymentKey(j) \in registry
          /\ \A d \in deployed :
                /\ pc[d.job] = "save" \/ d.key \in registry
                /\ d.key = Deploy!DeploymentKey(d.job)
          /\ \A d, e \in deployed : d.key = e.key => d = e

\* A temporary file belongs to a job that waits for a rescontract run.
TempInv == \A j \in temps : pc[j] \in {"adding", "solc", "load", "spawn", "save"}

\* The page shows the file of the wallet jobs it waits for, and a job that
\* was answered has deployed.
PageInv ==
    /\ \A j \in waiting : pc[j] # "idle"
    /\ ~deploy_replaced => \A j \in waiting : file \in {source[j], NoSource}
    /\ \A j \in Deploy!Job : pc[j] \in {"save", "done"} => \E d \in deployed : d.job = j

DeployInv == DeployTypes /\ ArtifactInv /\ RegistryInv /\ TempInv /\ PageInv

\* No job has started: nothing is compiled, deployed or registered.
LEMMA DeployInit == Deploy!Init => DeployInv
BY Zenon DEF Deploy!Init, DeployInv, DeployTypes, ArtifactInv, RegistryInv, TempInv,
       PageInv, Labels, Deploy!Deploying, Compiled, Building, Deploy!File, Deploy!Job

\* A file is uploaded: replaced says when the page waits for an earlier one.
LEMMA InvUpload ==
  ASSUME Deploy!JobsAssumption, DeployInv, Deploy!handleSolidityUpload
  PROVE  DeployInv'
<1> USE DEF DeployInv, Deploy!Goto, Deploy!WriteConfig, Deploy!jobs, Deploy!service, Deploy!history,
            Deploy!Deploying, Compiled, Building, Deploy!handleSolidityUpload
<1>1. DeployTypes' BY Zenon DEF DeployTypes, Labels, Deploy!File, Deploy!Job, Deploy!Key, Deploy!OutputName,
     Deploy!DeploymentKey, Deploy!JobsAssumption
<1>2. ArtifactInv' BY Zenon DEF DeployTypes, ArtifactInv, Deploy!File, Deploy!Job, Deploy!OutputName, Deploy!JobsAssumption, PageInv
<1>3. RegistryInv' BY Zenon DEF DeployTypes, RegistryInv, ArtifactInv, Deploy!Job
<1>4. TempInv' BY Zenon DEF DeployTypes, TempInv, Deploy!Job
<1>5. PageInv' BY Zenon DEF DeployTypes, PageInv, Deploy!Job
<1> QED BY Zenon, <1>1, <1>2, <1>3, <1>4, <1>5

\* The wallet job takes the source the page shows.
LEMMA InvClicked ==
  ASSUME Deploy!JobsAssumption, DeployInv, Deploy!handleDeploy
  PROVE  DeployInv'
<1> USE DEF DeployInv, Deploy!Goto, Deploy!WriteConfig, Deploy!jobs, Deploy!service, Deploy!history,
            Deploy!Deploying, Compiled, Building, Deploy!handleDeploy
<1>1. DeployTypes' BY DEF DeployTypes, Labels, Deploy!File, Deploy!Job, Deploy!Key, Deploy!OutputName,
     Deploy!DeploymentKey, Deploy!JobsAssumption
<1>2. ArtifactInv' BY DEF DeployTypes, ArtifactInv, Deploy!File, Deploy!Job, Deploy!OutputName, Deploy!JobsAssumption, PageInv
<1>3. RegistryInv' BY SMTT(30) DEF DeployTypes, RegistryInv, ArtifactInv, Deploy!Job
<1>4. TempInv' BY Zenon DEF DeployTypes, TempInv, Deploy!Job
<1>5. PageInv' BY DEF DeployTypes, PageInv, Deploy!Job
<1> QED BY Zenon, <1>1, <1>2, <1>3, <1>4, <1>5

\* The callback of handleDeploy ends the wait of its job.
LEMMA InvAnswered ==
  ASSUME Deploy!JobsAssumption, DeployInv, Deploy!DeployAnswered
  PROVE  DeployInv'
<1> USE DEF DeployInv, Deploy!Goto, Deploy!WriteConfig, Deploy!jobs, Deploy!service, Deploy!history,
            Deploy!Deploying, Compiled, Building, Deploy!DeployAnswered
<1>1. DeployTypes' BY Zenon DEF DeployTypes, Labels, Deploy!File, Deploy!Job, Deploy!Key, Deploy!OutputName,
     Deploy!DeploymentKey, Deploy!JobsAssumption
<1>2. ArtifactInv' BY Zenon DEF DeployTypes, ArtifactInv, Deploy!File, Deploy!Job, Deploy!OutputName, Deploy!JobsAssumption, PageInv
<1>3. RegistryInv' BY Zenon DEF DeployTypes, RegistryInv, ArtifactInv, Deploy!Job
<1>4. TempInv' BY Zenon DEF DeployTypes, TempInv, Deploy!Job
<1>5. PageInv' BY Zenon DEF DeployTypes, PageInv, Deploy!Job
<1> QED BY Zenon, <1>1, <1>2, <1>3, <1>4, <1>5

\* A closed popup waits for nothing.
LEMMA InvClosed ==
  ASSUME Deploy!JobsAssumption, DeployInv, Deploy!ClosePopup
  PROVE  DeployInv'
<1> USE DEF DeployInv, Deploy!Goto, Deploy!WriteConfig, Deploy!jobs, Deploy!service, Deploy!history,
            Deploy!Deploying, Compiled, Building, Deploy!ClosePopup
<1>1. DeployTypes' BY Zenon DEF DeployTypes, Labels, Deploy!File, Deploy!Job, Deploy!Key, Deploy!OutputName,
     Deploy!DeploymentKey, Deploy!JobsAssumption
<1>2. ArtifactInv' BY Zenon DEF DeployTypes, ArtifactInv, Deploy!File, Deploy!Job, Deploy!OutputName, Deploy!JobsAssumption, PageInv
<1>3. RegistryInv' BY Zenon DEF DeployTypes, RegistryInv, ArtifactInv, Deploy!Job
<1>4. TempInv' BY Zenon DEF DeployTypes, TempInv, Deploy!Job
<1>5. PageInv' BY Zenon DEF DeployTypes, PageInv, Deploy!Job
<1> QED BY Zenon, <1>1, <1>2, <1>3, <1>4, <1>5

\* Connecting the site touches no job.
LEMMA InvToggled ==
  ASSUME Deploy!JobsAssumption, DeployInv, Deploy!ToggleConnection
  PROVE  DeployInv'
<1> USE DEF DeployInv, Deploy!Goto, Deploy!WriteConfig, Deploy!jobs, Deploy!service, Deploy!history,
            Deploy!Deploying, Compiled, Building, Deploy!ToggleConnection
<1>1. DeployTypes' BY Zenon DEF DeployTypes, Labels, Deploy!File, Deploy!Job, Deploy!Key, Deploy!OutputName,
     Deploy!DeploymentKey, Deploy!JobsAssumption
<1>2. ArtifactInv' BY Zenon DEF DeployTypes, ArtifactInv, Deploy!File, Deploy!Job, Deploy!OutputName, Deploy!JobsAssumption, PageInv
<1>3. RegistryInv' BY Zenon DEF DeployTypes, RegistryInv, ArtifactInv, Deploy!Job
<1>4. TempInv' BY Zenon DEF DeployTypes, TempInv, Deploy!Job
<1>5. PageInv' BY Zenon DEF DeployTypes, PageInv, Deploy!Job
<1> QED BY Zenon, <1>1, <1>2, <1>3, <1>4, <1>5

\* The checks of deployContractChain start or end the job.
LEMMA InvChecked ==
  ASSUME Deploy!JobsAssumption, DeployInv, Deploy!CheckConnected
  PROVE  DeployInv'
<1> USE DEF DeployInv, Deploy!Goto, Deploy!WriteConfig, Deploy!jobs, Deploy!service, Deploy!history,
            Deploy!Deploying, Compiled, Building, Deploy!CheckConnected
<1>1. DeployTypes' BY Zenon DEF DeployTypes, Labels, Deploy!File, Deploy!Job, Deploy!Key, Deploy!OutputName,
     Deploy!DeploymentKey, Deploy!JobsAssumption
<1>2. ArtifactInv' BY DEF DeployTypes, ArtifactInv, Deploy!File, Deploy!Job, Deploy!OutputName, Deploy!JobsAssumption, PageInv
<1>3. RegistryInv' BY DEF DeployTypes, RegistryInv, ArtifactInv, Deploy!Job
<1>4. TempInv' BY Zenon DEF DeployTypes, TempInv, Deploy!Job
<1>5. PageInv' BY Zenon DEF DeployTypes, PageInv, Deploy!Job
<1> QED BY Zenon, <1>1, <1>2, <1>3, <1>4, <1>5

\* Another client starts with a source of its own.
LEMMA InvStarted ==
  ASSUME Deploy!JobsAssumption, DeployInv, Deploy!ClientStarts
  PROVE  DeployInv'
<1> USE DEF DeployInv, Deploy!Goto, Deploy!WriteConfig, Deploy!jobs, Deploy!service, Deploy!history,
            Deploy!Deploying, Compiled, Building, Deploy!ClientStarts
<1>1. DeployTypes' BY DEF DeployTypes, Labels, Deploy!File, Deploy!Job, Deploy!Key, Deploy!OutputName,
     Deploy!DeploymentKey, Deploy!JobsAssumption
<1>2. ArtifactInv' BY DEF DeployTypes, ArtifactInv, Deploy!File, Deploy!Job, Deploy!OutputName, Deploy!JobsAssumption, PageInv
<1>3. RegistryInv' BY DEF DeployTypes, RegistryInv, ArtifactInv, Deploy!Job
<1>4. TempInv' BY Zenon DEF DeployTypes, TempInv, Deploy!Job
<1>5. PageInv' BY Zenon DEF DeployTypes, PageInv, Deploy!Job
<1> QED BY Zenon, <1>1, <1>2, <1>3, <1>4, <1>5

\* addAddress writes a temporary file and waits.
LEMMA InvAddAddress ==
  ASSUME Deploy!JobsAssumption, DeployInv, Deploy!addAddress
  PROVE  DeployInv'
<1> USE DEF DeployInv, Deploy!Goto, Deploy!WriteConfig, Deploy!jobs, Deploy!service, Deploy!history,
            Deploy!Deploying, Compiled, Building, Deploy!addAddress
<1>1. DeployTypes' BY DEF DeployTypes, Labels, Deploy!File, Deploy!Job, Deploy!Key, Deploy!OutputName,
     Deploy!DeploymentKey, Deploy!JobsAssumption
<1>2. ArtifactInv' BY DEF DeployTypes, ArtifactInv, Deploy!File, Deploy!Job, Deploy!OutputName, Deploy!JobsAssumption, PageInv
<1>3. RegistryInv' BY DEF DeployTypes, RegistryInv, ArtifactInv, Deploy!Job
<1>4. TempInv' BY Zenon DEF DeployTypes, TempInv, Deploy!Job
<1>5. PageInv' BY Zenon DEF DeployTypes, PageInv, Deploy!Job
<1> QED BY Zenon, <1>1, <1>2, <1>3, <1>4, <1>5

\* createAccount writes a temporary file and waits.
LEMMA InvCreateAccount ==
  ASSUME Deploy!JobsAssumption, DeployInv, Deploy!createAccount
  PROVE  DeployInv'
<1> USE DEF DeployInv, Deploy!Goto, Deploy!WriteConfig, Deploy!jobs, Deploy!service, Deploy!history,
            Deploy!Deploying, Compiled, Building, Deploy!createAccount
<1>1. DeployTypes' BY DEF DeployTypes, Labels, Deploy!File, Deploy!Job, Deploy!Key, Deploy!OutputName,
     Deploy!DeploymentKey, Deploy!JobsAssumption
<1>2. ArtifactInv' BY DEF DeployTypes, ArtifactInv, Deploy!File, Deploy!Job, Deploy!OutputName, Deploy!JobsAssumption, PageInv
<1>3. RegistryInv' BY SMTT(30) DEF DeployTypes, RegistryInv, ArtifactInv, Deploy!Job
<1>4. TempInv' BY Zenon DEF DeployTypes, TempInv, Deploy!Job
<1>5. PageInv' BY Zenon DEF DeployTypes, PageInv, Deploy!Job
<1> QED BY Zenon, <1>1, <1>2, <1>3, <1>4, <1>5

\* The end of rescontract create removes the temporary file.
LEMMA InvAdded ==
  ASSUME Deploy!JobsAssumption, DeployInv, Deploy!AccountAdded
  PROVE  DeployInv'
<1> USE DEF DeployInv, Deploy!Goto, Deploy!WriteConfig, Deploy!jobs, Deploy!service, Deploy!history,
            Deploy!Deploying, Compiled, Building, Deploy!AccountAdded
<1>1. DeployTypes' BY DEF DeployTypes, Labels, Deploy!File, Deploy!Job, Deploy!Key, Deploy!OutputName,
     Deploy!DeploymentKey, Deploy!JobsAssumption
<1>2. ArtifactInv' BY DEF DeployTypes, ArtifactInv, Deploy!File, Deploy!Job, Deploy!OutputName, Deploy!JobsAssumption, PageInv
<1>3. RegistryInv' BY DEF DeployTypes, RegistryInv, ArtifactInv, Deploy!Job
<1>4. TempInv' BY Zenon DEF DeployTypes, TempInv, Deploy!Job
<1>5. PageInv' BY Zenon DEF DeployTypes, PageInv, Deploy!Job
<1> QED BY Zenon, <1>1, <1>2, <1>3, <1>4, <1>5

\* A second path job that builds at the same time is recorded in mixed.
LEMMA InvCompileStarts ==
  ASSUME Deploy!JobsAssumption, DeployInv, Deploy!compileContract
  PROVE  DeployInv'
<1> USE DEF DeployInv, Deploy!Goto, Deploy!WriteConfig, Deploy!jobs, Deploy!service, Deploy!history,
            Deploy!Deploying, Compiled, Building, Deploy!compileContract
<1>1. DeployTypes' BY DEF DeployTypes, Labels, Deploy!File, Deploy!Job, Deploy!Key, Deploy!OutputName,
     Deploy!DeploymentKey, Deploy!JobsAssumption
<1>2. ArtifactInv'
  <2>1. PICK j \in Deploy!Job : /\ pc[j] = "compile" /\ pc' = [pc EXCEPT ![j] = "solc"]
                               /\ mixed' = (mixed \/ \E k \in PathClient \ {j} :
                                               j \in PathClient /\ pc[k] \in Building)
    BY Zenon
  <2>2. \A k \in Deploy!Job : pc'[k] = IF k = j THEN "solc" ELSE pc[k] BY Zenon, <2>1 DEF DeployTypes
  <2>3. ~mixed' => ~mixed BY Zenon, <2>1
  <2>4. ASSUME ~mixed', NEW k \in PathClient, NEW l \in PathClient,
               pc'[k] \in Building, pc'[l] \in Building
        PROVE  k = l
    <3>1. PathClient \subseteq Deploy!Job BY Zenon DEF Deploy!Job
    <3>2. CASE k = j /\ l # j BY Zenon, <2>1, <2>2, <2>4, <3>1, <3>2
    <3>3. CASE l = j /\ k # j BY Zenon, <2>1, <2>2, <2>4, <3>1, <3>3
    <3>4. CASE l # j /\ k # j BY Zenon, <2>2, <2>3, <2>4, <3>1, <3>4 DEF ArtifactInv
    <3> QED BY Zenon, <3>2, <3>3, <3>4
  <2> HIDE DEF Building
  <2>5. \A d \in deployed : pc'[d.job] # "idle" BY Zenon, <2>2 DEF ArtifactInv
  <2> QED BY Zenon, <2>2, <2>3, <2>4, <2>5 DEF ArtifactInv
<1>3. RegistryInv' BY SMTT(30) DEF DeployTypes, RegistryInv, ArtifactInv, Deploy!Job
<1>4. TempInv' BY Zenon DEF DeployTypes, TempInv, Deploy!Job
<1>5. PageInv' BY DEF DeployTypes, PageInv, Deploy!Job
<1> QED BY Zenon, <1>1, <1>2, <1>3, <1>4, <1>5

\* The compiled file is the job's own, or mixed says it may not be.
LEMMA InvCompiles ==
  ASSUME Deploy!JobsAssumption, DeployInv, Deploy!compile
  PROVE  DeployInv'
<1> USE DEF DeployInv, Deploy!Goto, Deploy!WriteConfig, Deploy!jobs, Deploy!service, Deploy!history,
            Deploy!Deploying, Compiled, Building, Deploy!compile
<1>1. DeployTypes' BY SMTT(30) DEF DeployTypes, Labels, Deploy!File, Deploy!Job, Deploy!Key, Deploy!OutputName,
     Deploy!DeploymentKey, Deploy!JobsAssumption
<1>2. ArtifactInv' BY DEF DeployTypes, ArtifactInv, Deploy!File, Deploy!Job, Deploy!OutputName, Deploy!JobsAssumption, PageInv
<1>3. RegistryInv' BY SMTT(30) DEF DeployTypes, RegistryInv, ArtifactInv, Deploy!Job
<1>4. TempInv' BY Zenon DEF DeployTypes, TempInv, Deploy!Job
<1>5. PageInv' BY Zenon DEF DeployTypes, PageInv, Deploy!Job
<1> QED BY Zenon, <1>1, <1>2, <1>3, <1>4, <1>5

\* A second deploy run at the same time is recorded in overlapped.
LEMMA InvDeployStarts ==
  ASSUME Deploy!JobsAssumption, DeployInv, Deploy!deployContract
  PROVE  DeployInv'
<1> USE DEF DeployInv, Deploy!Goto, Deploy!WriteConfig, Deploy!jobs, Deploy!service, Deploy!history,
            Deploy!Deploying, Compiled, Building, Deploy!deployContract
<1>1. DeployTypes' BY DEF DeployTypes, Labels, Deploy!File, Deploy!Job, Deploy!Key, Deploy!OutputName,
     Deploy!DeploymentKey, Deploy!JobsAssumption
<1>2. ArtifactInv' BY SMTT(30) DEF DeployTypes, ArtifactInv, Deploy!File, Deploy!Job, Deploy!OutputName, Deploy!JobsAssumption, PageInv
<1>3. RegistryInv'
  <2>1. PICK j \in Deploy!Job : /\ pc[j] = "deploy" /\ pc' = [pc EXCEPT ![j] = "load"]
                               /\ deploy_overlapped' = (deploy_overlapped \/ \E k \in Deploy!Job : pc[k] \in Deploy!Deploying)
    BY Zenon
  <2>2. ASSUME ~deploy_overlapped', NEW k \in Deploy!Job, pc'[k] \in Deploy!Deploying
        PROVE  k = j
    BY Zenon, <2>1, <2>2 DEF DeployTypes
  <2>3. \A k \in Deploy!Job : pc'[k] = IF k = j THEN "load" ELSE pc[k] BY Zenon, <2>1 DEF DeployTypes
  <2>4. ~deploy_overlapped' => ~deploy_overlapped BY Zenon, <2>1
  <2> QED BY SMTT(30), <2>2, <2>3, <2>4, <2>1 DEF RegistryInv, ArtifactInv
<1>4. TempInv' BY Zenon DEF DeployTypes, TempInv, Deploy!Job
<1>5. PageInv' BY DEF DeployTypes, PageInv, Deploy!Job
<1> QED BY Zenon, <1>1, <1>2, <1>3, <1>4, <1>5

\* A deploy run goes on only if its key is not in what it loaded.
LEMMA InvLoads ==
  ASSUME Deploy!JobsAssumption, DeployInv, Deploy!loadDeployedContracts
  PROVE  DeployInv'
<1> USE DEF DeployInv, Deploy!Goto, Deploy!WriteConfig, Deploy!jobs, Deploy!service, Deploy!history,
            Deploy!Deploying, Compiled, Building, Deploy!loadDeployedContracts
<1>1. DeployTypes' BY DEF DeployTypes, Labels, Deploy!File, Deploy!Job, Deploy!Key, Deploy!OutputName,
     Deploy!DeploymentKey, Deploy!JobsAssumption
<1>2. ArtifactInv' BY SMTT(30) DEF DeployTypes, ArtifactInv, Deploy!File, Deploy!Job, Deploy!OutputName, Deploy!JobsAssumption, PageInv
<1>3. RegistryInv' BY SMTT(30) DEF DeployTypes, RegistryInv, ArtifactInv, Deploy!Job
<1>4. TempInv' BY DEF DeployTypes, TempInv, Deploy!Job
<1>5. PageInv' BY DEF DeployTypes, PageInv, Deploy!Job
<1> QED BY Zenon, <1>1, <1>2, <1>3, <1>4, <1>5

\* A deployment under a key that was deployed before would be in the registry.
LEMMA InvTools ==
  ASSUME Deploy!JobsAssumption, DeployInv, Deploy!contractTools
  PROVE  DeployInv'
<1> USE DEF DeployInv, Deploy!Goto, Deploy!WriteConfig, Deploy!jobs, Deploy!service, Deploy!history,
            Deploy!Deploying, Compiled, Building, Deploy!contractTools
<1>1. DeployTypes'
  <2>1. PICK j \in Deploy!Job : \E l \in {"save", "failed"} : pc' = [pc EXCEPT ![j] = l]
    BY Zenon
  <2>2. pc' \in [Deploy!Job -> Labels] BY Zenon, <2>1 DEF DeployTypes, Labels
  <2>3. temps' \subseteq temps /\ forgotten' \in BOOLEAN BY Zenon DEF DeployTypes
  <2> QED BY Zenon, <2>2, <2>3 DEF DeployTypes
<1>2. ArtifactInv' BY DEF DeployTypes, ArtifactInv, Deploy!File, Deploy!Job, Deploy!OutputName, Deploy!JobsAssumption, PageInv
<1>3. RegistryInv' BY SMTT(30) DEF DeployTypes, RegistryInv, ArtifactInv, Deploy!Job
<1>4. TempInv' BY Zenon DEF DeployTypes, TempInv, Deploy!Job
<1>5. PageInv'
  <2>1. PICK j \in Deploy!Job : pc[j] = "spawn" /\ \E l \in {"save", "failed"} :
            /\ pc' = [pc EXCEPT ![j] = l]
            /\ l = "save" => \E d \in deployed' : d.job = j
    BY Zenon
  <2>2. deployed \subseteq deployed' BY Zenon
  <2>3. ASSUME NEW k \in Deploy!Job, pc'[k] \in {"save", "done"}
        PROVE  \E d \in deployed' : d.job = k
    BY Zenon, <2>1, <2>2, <2>3 DEF DeployTypes, PageInv
  <2>4. \A k \in Deploy!Job : pc'[k] = "idle" => pc[k] = "idle" BY Zenon, <2>1 DEF DeployTypes
  <2> QED BY Zenon, <2>3, <2>4 DEF PageInv, DeployTypes, Deploy!Job
<1> QED BY Zenon, <1>1, <1>2, <1>3, <1>4, <1>5

\* The registry written back holds all entries when runs do not overlap.
LEMMA InvSaves ==
  ASSUME Deploy!JobsAssumption, DeployInv, Deploy!saveDeployedContracts
  PROVE  DeployInv'
<1> USE DEF DeployInv, Deploy!Goto, Deploy!WriteConfig, Deploy!jobs, Deploy!service, Deploy!history,
            Deploy!Deploying, Compiled, Building, Deploy!Ended, Deploy!saveDeployedContracts
<1>1. DeployTypes' BY DEF DeployTypes, Labels, Deploy!File, Deploy!Job, Deploy!Key, Deploy!OutputName,
     Deploy!DeploymentKey, Deploy!JobsAssumption
<1>2. ArtifactInv' BY DEF DeployTypes, ArtifactInv, Deploy!File, Deploy!Job, Deploy!OutputName, Deploy!JobsAssumption, PageInv
<1>3. RegistryInv' BY DEF DeployTypes, RegistryInv, ArtifactInv, Deploy!Job
<1>4. TempInv' BY Zenon DEF DeployTypes, TempInv, Deploy!Job
<1>5. PageInv' BY DEF DeployTypes, PageInv, Deploy!Job
<1> QED BY Zenon, <1>1, <1>2, <1>3, <1>4, <1>5

\* executeContract changes no deployment.
LEMMA InvExecutes ==
  ASSUME Deploy!JobsAssumption, DeployInv, Deploy!executeContract
  PROVE  DeployInv'
<1> USE DEF DeployInv, Deploy!Goto, Deploy!WriteConfig, Deploy!jobs, Deploy!service, Deploy!history,
            Deploy!Deploying, Compiled, Building, Deploy!executeContract
<1>1. DeployTypes' BY Zenon DEF DeployTypes, Labels, Deploy!File, Deploy!Job, Deploy!Key, Deploy!OutputName,
     Deploy!DeploymentKey, Deploy!JobsAssumption
<1>2. ArtifactInv' BY Zenon DEF DeployTypes, ArtifactInv, Deploy!File, Deploy!Job, Deploy!OutputName, Deploy!JobsAssumption, PageInv
<1>3. RegistryInv' BY Zenon DEF DeployTypes, RegistryInv, ArtifactInv, Deploy!Job
<1>4. TempInv' BY Zenon DEF DeployTypes, TempInv, Deploy!Job
<1>5. PageInv' BY Zenon DEF DeployTypes, PageInv, Deploy!Job
<1> QED BY Zenon, <1>1, <1>2, <1>3, <1>4, <1>5

\* clear-registry is recorded in forgotten.
LEMMA InvClears ==
  ASSUME Deploy!JobsAssumption, DeployInv, Deploy!clearRegistry
  PROVE  DeployInv'
<1> USE DEF DeployInv, Deploy!Goto, Deploy!WriteConfig, Deploy!jobs, Deploy!service, Deploy!history,
            Deploy!Deploying, Compiled, Building, Deploy!clearRegistry
<1>1. DeployTypes' BY Zenon DEF DeployTypes, Labels, Deploy!File, Deploy!Job, Deploy!Key, Deploy!OutputName,
     Deploy!DeploymentKey, Deploy!JobsAssumption
<1>2. ArtifactInv' BY Zenon DEF DeployTypes, ArtifactInv, Deploy!File, Deploy!Job, Deploy!OutputName, Deploy!JobsAssumption, PageInv
<1>3. RegistryInv' BY Zenon DEF DeployTypes, RegistryInv, ArtifactInv, Deploy!Job
<1>4. TempInv' BY Zenon DEF DeployTypes, TempInv, Deploy!Job
<1>5. PageInv' BY Zenon DEF DeployTypes, PageInv, Deploy!Job
<1> QED BY Zenon, <1>1, <1>2, <1>3, <1>4, <1>5

\* Every step of a job, of the page or of the service keeps the invariant.
LEMMA DeployNext ==
  ASSUME Deploy!JobsAssumption, DeployInv, [Deploy!Next]_(Deploy!vars)
  PROVE  DeployInv'
<1>1. CASE Deploy!handleSolidityUpload BY Zenon, <1>1, InvUpload
<1>2. CASE Deploy!handleDeploy BY Zenon, <1>2, InvClicked
<1>3. CASE Deploy!DeployAnswered BY Zenon, <1>3, InvAnswered
<1>4. CASE Deploy!ClosePopup BY Zenon, <1>4, InvClosed
<1>5. CASE Deploy!ToggleConnection BY Zenon, <1>5, InvToggled
<1>6. CASE Deploy!CheckConnected BY Zenon, <1>6, InvChecked
<1>7. CASE Deploy!ClientStarts BY Zenon, <1>7, InvStarted
<1>8. CASE Deploy!addAddress BY Zenon, <1>8, InvAddAddress
<1>9. CASE Deploy!createAccount BY Zenon, <1>9, InvCreateAccount
<1>10. CASE Deploy!AccountAdded BY Zenon, <1>10, InvAdded
<1>11. CASE Deploy!compileContract BY Zenon, <1>11, InvCompileStarts
<1>12. CASE Deploy!compile BY Zenon, <1>12, InvCompiles
<1>13. CASE Deploy!deployContract BY Zenon, <1>13, InvDeployStarts
<1>14. CASE Deploy!loadDeployedContracts BY Zenon, <1>14, InvLoads
<1>15. CASE Deploy!contractTools BY Zenon, <1>15, InvTools
<1>16. CASE Deploy!saveDeployedContracts BY Zenon, <1>16, InvSaves
<1>17. CASE Deploy!executeContract BY Zenon, <1>17, InvExecutes
<1>18. CASE Deploy!clearRegistry BY Zenon, <1>18, InvClears
<1>19. CASE UNCHANGED Deploy!vars
  BY Zenon, <1>19 DEF Deploy!vars, Deploy!jobs, Deploy!service, Deploy!history, DeployInv,
               DeployTypes, ArtifactInv, RegistryInv, TempInv, PageInv
<1> QED BY Zenon, <1>1, <1>2, <1>3, <1>4, <1>5, <1>6, <1>7, <1>8, <1>9,
           <1>10, <1>11, <1>12, <1>13, <1>14, <1>15, <1>16, <1>17, <1>18, <1>19 DEF Deploy!Next, Deploy!Scripts

\* The inductive invariant of the deployments holds in every reachable state.
LEMMA DeployInvariant ==
  ASSUME Deploy!JobsAssumption
  PROVE  Deploy!Spec => []DeployInv
<1>1. DeployInv /\ [Deploy!Next]_(Deploy!vars) => DeployInv' BY Zenon, DeployNext
<1> QED BY <1>1, DeployInit, PTL DEF Deploy!Spec

\* For any number of wallet jobs and other clients, however their runs of
\* rescontract interleave and fail: a deployed contract was compiled from the
\* source of its own request (for type "path" unless two built at once); when
\* no two deploy runs overlapped and nothing was forgotten, a deployment that
\* is done is in the registry and none was made twice under a key; no
\* temporary file of an ended request is left.
THEOREM DeploymentsSound ==
  ASSUME Deploy!JobsAssumption
  PROVE  Deploy!Spec => []DeploysSound
<1>1. DeployInv => DeploysSound
  <2> SUFFICES ASSUME DeployInv PROVE DeploysSound BY Zenon
  <2>1. Deploy!OwnArtifact BY Zenon DEF DeployInv, ArtifactInv, Deploy!OwnArtifact
  <2>2. Deploy!DoneIsRegistered BY Zenon DEF DeployInv, RegistryInv, Deploy!DoneIsRegistered
  <2>3. Deploy!OncePerKey BY Zenon DEF DeployInv, RegistryInv, Deploy!OncePerKey
  <2>4. Deploy!NoTempLeft BY Zenon DEF DeployInv, TempInv, Deploy!NoTempLeft, Deploy!Ended
  <2> QED BY Zenon, <2>1, <2>2, <2>3, <2>4 DEF DeploysSound, Deploy!DeploysSound
<1> QED BY <1>1, DeployInvariant, PTL

\* The answer to a deployment clears the files of the Contract page only if a
\* contract was deployed from them, unless another file was uploaded while
\* the page waited (handleDeploy).
THEOREM ClearsWhatItDeployed ==
  ASSUME Deploy!JobsAssumption
  PROVE  Deploy!Spec => Deploy!ClearedIsDeployed
<1>1. ASSUME DeployInv, Deploy!DeployAnswered, file # NoSource, file' = NoSource, ~deploy_replaced
      PROVE  \E d \in deployed : d.source = file
  <2>1. PICK j \in waiting : pc[j] = "done"
    BY Zenon, <1>1 DEF Deploy!DeployAnswered, Deploy!Ended
  <2>2. j \in Wallet /\ j \in Deploy!Job /\ j \notin PathClient
    BY Zenon, <1>1, <2>1 DEF DeployInv, DeployTypes, Deploy!Job, Deploy!JobsAssumption
  <2>3. PICK d \in deployed : d.job = j BY Zenon, <1>1, <2>1, <2>2 DEF DeployInv, PageInv
  <2>4. d.source = source[j] BY Zenon, <1>1, <2>2, <2>3 DEF DeployInv, ArtifactInv
  <2>5. file = source[j] BY Zenon, <1>1, <2>1 DEF DeployInv, PageInv
  <2> QED BY Zenon, <2>3, <2>4, <2>5
<1>2. DeployInv /\ [Deploy!Next]_(Deploy!vars) =>
        [Deploy!DeployAnswered /\ file # NoSource /\ file' = NoSource =>
            deploy_replaced \/ \E d \in deployed : d.source = file]_(Deploy!vars)
  BY Zenon, <1>1
<1> QED BY <1>2, DeployInvariant, PTL DEF Deploy!Spec, Deploy!ClearedIsDeployed

-----------------------------------------------------------------------------
(* Connections of sites *)

\* The objects in storage, messages and callbacks; what is written to keys and
\* connectedNets is consistent, however old it is.
Nets == Net \cup {Vault!Manage, Vault!None}
Pairs == SUBSET (Domain \X Nets)
Local == {x \in [keys : Pairs, nets : [Domain -> Nets]] :
            \A d \in Domain : x.nets[d] # Vault!None => <<d, x.nets[d]>> \in x.keys}
Wanted == {"status", "switch", "keys", "none"}
Storing == [d : Domain, n : Nets, reply : Wanted, to : Nets]
Call == [op : {"store", "disconnect"}, d : Domain, n : Nets, reply : Wanted,
         to : Nets, seen : Local]
Msg == [d : Domain, n : Nets, reply : Wanted, to : Nets, value : BOOLEAN]
Get == [op : {"set", "status"}, d : Domain, n : Nets, value : BOOLEAN, seen : Pairs]

VaultTypes ==
    /\ local \in Local /\ unstored \in Pairs /\ connections \in Pairs
    /\ activeNet \in Nets /\ selectedNet \in Nets
    /\ domain \in Domain \cup {Vault!None} /\ isConnected \in BOOLEAN
    /\ storing \subseteq Storing
    /\ sites_calls \in Seq(Call) /\ replies \in Seq(Msg) /\ gets \in Seq(Get)
    /\ disturbed \in BOOLEAN

\* Undisturbed, one change at a time passes from the click over the background
\* script back to the popup, in these phases.  What its answer will do:
Here == <<domain, selectedNet>>
Known == local.keys \cup unstored
Agree == connections = Known
Switched == keysChanged = "switched"
Intent(c, up) ==
    /\ c.d = domain /\ c.n = selectedNet
    /\ c.reply # "none"
    /\ up => c.reply = "status" /\ isConnected /\ ~Switched
    /\ ~up /\ c.reply = "status" => ~isConnected
    /\ c.reply = "switch" => c.to # c.n
After(c) == IF c.value THEN connections \cup {<<c.d, c.n>>} ELSE connections \ {<<c.d, c.n>>}

Idle == /\ storing = {} /\ sites_calls = <<>> /\ replies = <<>> /\ gets = <<>>
        /\ Agree
        /\ domain # Vault!None => isConnected = (Here \in connections)
Encrypting ==
    /\ sites_calls = <<>> /\ replies = <<>> /\ gets = <<>>
    /\ Agree
    /\ \E r \in Storing : /\ storing = {r}
                          /\ r.d = domain /\ r.n = selectedNet /\ r.reply = "status"
    /\ isConnected /\ ~Switched
Called ==
    /\ storing = {} /\ replies = <<>> /\ gets = <<>>
    /\ Agree
    /\ \E c \in Call : sites_calls = <<c>> /\ c.seen = local /\ Intent(c, c.op = "store")
Replied ==
    /\ storing = {} /\ sites_calls = <<>> /\ gets = <<>>
    /\ \E r \in Msg : replies = <<r>> /\ Known = After(r) /\ Intent(r, r.value)
Setting ==
    /\ storing = {} /\ sites_calls = <<>> /\ replies = <<>>
    /\ \E g \in Get :
        /\ g.op = "set" /\ g.seen = connections /\ Known = After(g) /\ g.d = domain
        /\ \/ gets = <<g>> /\ g.n = selectedNet /\ isConnected = g.value
           \/ /\ g.n # selectedNet
              /\ \E h \in Get : /\ gets = <<g, h>> /\ h.op = "status"
                                /\ h.value = (Here \in connections)
Reading ==
    /\ storing = {} /\ sites_calls = <<>> /\ replies = <<>>
    /\ Agree
    /\ \E h \in Get : gets = <<h>> /\ h.op = "status" /\ h.value = (Here \in connections)

PhaseInv ==
    ~disturbed => Idle \/ Encrypting \/ Called \/ Replied \/ Setting \/ Reading

\* After a change of pair the net shown has no keys, or is being disconnected.
PairInv ==
    ~disturbed => /\ domain = Vault!None => ~Switched
                  /\ Switched /\ sites_calls = <<>> => Here \notin Known

VaultInv == VaultTypes /\ PhaseInv /\ PairInv

\* With nothing under way the two records agree and the status is shown.
LEMMA SettledIdle ==
  ASSUME VaultInv, ~disturbed, Vault!Settled
  PROVE  Idle
<1>1. ~Encrypting BY Zenon DEF Encrypting, Vault!Settled
<1>2. ~Called BY Zenon DEF Called, Vault!Settled
<1>3. ~Replied BY Zenon DEF Replied, Vault!Settled
<1>4. ~Setting BY Zenon DEF Setting, Vault!Settled
<1>5. ~Reading BY Zenon DEF Reading, Vault!Settled
<1> QED BY Zenon, <1>1, <1>2, <1>3, <1>4, <1>5 DEF VaultInv, PhaseInv

\* A wallet without connections.
LEMMA VaultInit == Vault!Init => VaultInv
<1> SUFFICES ASSUME Vault!Init PROVE VaultInv BY Zenon
<1> USE DEF Vault!Init
<1>1. local \in Local BY Zenon DEF Vault!Empty, Local, Pairs, Nets
<1>2. sites_calls \in Seq(Call) /\ replies \in Seq(Msg) /\ gets \in Seq(Get) OBVIOUS
<1>3. VaultTypes BY Zenon, <1>1, <1>2 DEF VaultTypes, Nets, Pairs
<1>4. Idle BY Zenon DEF Idle, Agree, Known, Vault!Empty
<1> QED BY Zenon, <1>3, <1>4 DEF VaultInv, PhaseInv, PairInv, Switched

\* The gets of the popup have their types.
LEMMA GetTypes ==
  ASSUME VaultTypes, NEW d \in Domain, NEW n \in Nets, NEW v \in BOOLEAN
  PROVE  /\ Vault!setDomainConnectionStatus(d, n, v) \in Get
         /\ Vault!getDomainConnectionStatus(d, n) \in Get
BY DEF Vault!setDomainConnectionStatus, Vault!getDomainConnectionStatus, Get, VaultTypes, Pairs

\* The popup is opened and reads the status of its site.
LEMMA OpenKeeps ==
  ASSUME VaultInv, NEW d \in Domain, Vault!OpenPopup(d)
  PROVE  VaultInv'
<1> DEFINE g == Vault!getDomainConnectionStatus(d, activeNet)
<1>0. VaultTypes BY Zenon DEF VaultInv
<1>1. g \in Get /\ g.op = "status" /\ g.value = (<<d, activeNet>> \in connections)
  BY Zenon, <1>0, GetTypes DEF VaultTypes, Vault!getDomainConnectionStatus
<1>2. /\ domain' = d /\ selectedNet' = activeNet /\ isConnected' = FALSE /\ gets' = <<g>>
      /\ UNCHANGED <<local, unstored, connections, activeNet, storing, sites_calls, replies, keysChanged>>
      /\ domain = Vault!None /\ disturbed' = (disturbed \/ ~Vault!Settled)
  BY Zenon DEF Vault!OpenPopup, Vault!Mount
<1> HIDE DEF g
<1>3. VaultTypes'
  <2>1. <<g>> \in Seq(Get) BY <1>1
  <2> QED BY Zenon, <1>0, <1>2, <2>1 DEF VaultTypes
<1>4. ASSUME ~disturbed' PROVE Reading' /\ ~Switched'
  <2>1. Idle BY Zenon, <1>2, <1>4, SettledIdle
  <2>2. ~Switched BY Zenon, <1>2, <1>4 DEF VaultInv, PairInv
  <2>3. Reading' BY Zenon, <1>1, <1>2, <2>1 DEF Idle, Reading, Agree, Known, Here
  <2> QED BY Zenon, <1>2, <2>2, <2>3 DEF Switched
<1> QED BY Zenon, <1>3, <1>4 DEF VaultInv, PhaseInv, PairInv

\* A popup that is closed loses its callbacks; undisturbed there were none.
LEMMA CloseKeeps ==
  ASSUME VaultInv, Vault!ClosePopup
  PROVE  VaultInv'
<1>0. VaultTypes BY Zenon DEF VaultInv
<1>1. /\ domain' = Vault!None /\ selectedNet' = activeNet /\ isConnected' = FALSE
      /\ keysChanged' = "no"
      /\ storing' = {[r EXCEPT !.reply = "none"] : r \in storing}
      /\ sites_calls' = [i \in DOMAIN sites_calls |-> [sites_calls[i] EXCEPT !.reply = "none"]]
      /\ replies' = <<>> /\ gets' = <<>>
      /\ disturbed' = (disturbed \/ ~Vault!Settled)
      /\ UNCHANGED <<local, unstored, connections, activeNet>>
  BY Zenon DEF Vault!ClosePopup
<1>2. storing' \subseteq Storing BY Zenon, <1>0, <1>1 DEF VaultTypes, Storing, Wanted
<1>3. sites_calls' \in Seq(Call)
  <2>1. \A i \in DOMAIN sites_calls : [sites_calls[i] EXCEPT !.reply = "none"] \in Call
    <3> SUFFICES ASSUME NEW i \in DOMAIN sites_calls PROVE [sites_calls[i] EXCEPT !.reply = "none"] \in Call
      BY Zenon
    <3>1. sites_calls[i] \in Call BY <1>0 DEF VaultTypes
    <3> QED BY Zenon, <3>1 DEF Call, Wanted
  <2>2. Len(sites_calls) \in Nat /\ DOMAIN sites_calls = 1 .. Len(sites_calls) BY <1>0 DEF VaultTypes
  <2> QED BY <1>1, <2>1, <2>2
<1>4. VaultTypes'
  <2>1. replies' \in Seq(Msg) /\ gets' \in Seq(Get) BY <1>1
  <2>2. selectedNet' \in Nets /\ domain' \in Domain \cup {Vault!None}
    BY Zenon, <1>0, <1>1 DEF VaultTypes
  <2> QED BY Zenon, <1>0, <1>1, <1>2, <1>3, <2>1, <2>2 DEF VaultTypes
<1>5. ASSUME ~disturbed' PROVE Idle'
  <2>1. Idle BY Zenon, <1>1, <1>5, SettledIdle
  <2>2. sites_calls' = <<>> BY <1>1, <2>1 DEF Idle
  <2>3. storing' = {} BY Zenon, <1>1, <2>1 DEF Idle
  <2> QED BY Zenon, <1>1, <2>1, <2>2, <2>3 DEF Idle, Agree, Known
<1> QED BY Zenon, <1>1, <1>4, <1>5 DEF VaultInv, PhaseInv, PairInv, Switched

\* The message disconnectKeys of the popup becomes the only request.
LEMMA DisconnectSent ==
  ASSUME VaultInv, domain \in Domain, NEW reply \in Wanted, NEW to \in Nets,
         Vault!SendDisconnect(reply, to)
  PROVE  /\ sites_calls' \in Seq(Call)
         /\ sites_calls = <<>> => \E c \in Call : /\ sites_calls' = <<c>> /\ c.op = "disconnect"
                                            /\ c.d = domain /\ c.n = selectedNet
                                            /\ c.reply = reply /\ c.to = to /\ c.seen = local
<1> DEFINE c == [op |-> "disconnect", d |-> domain, n |-> selectedNet,
                 reply |-> reply, to |-> to, seen |-> local]
<1>1. c \in Call BY Zenon DEF Call, VaultInv, VaultTypes
<1>2. sites_calls' = Append(sites_calls, c) BY Zenon DEF Vault!SendDisconnect
<1>3. /\ c.op = "disconnect" /\ c.d = domain /\ c.n = selectedNet
      /\ c.reply = reply /\ c.to = to /\ c.seen = local
  BY Zenon
<1> HIDE DEF c
<1>4. sites_calls \in Seq(Call) BY Zenon DEF VaultInv, VaultTypes
<1>5. sites_calls' \in Seq(Call) BY <1>1, <1>2, <1>4
<1>6. sites_calls = <<>> => sites_calls' = <<c>> BY <1>2
<1> QED BY Zenon, <1>1, <1>3, <1>5, <1>6

\* The Connect button.
LEMMA ToggleKeeps ==
  ASSUME VaultInv, Vault!toggleConnection
  PROVE  VaultInv'
<1>0. VaultTypes BY Zenon DEF VaultInv
<1>1. /\ domain # Vault!None /\ disturbed' = (disturbed \/ ~Vault!Settled)
      /\ isConnected' = ~isConnected
      /\ UNCHANGED <<local, unstored, connections, activeNet, domain, selectedNet, replies, gets>>
  BY Zenon DEF Vault!toggleConnection, Vault!Click
<1>2. domain \in Domain BY Zenon, <1>0, <1>1 DEF VaultTypes
<1>3. CASE isConnected
  <2>1. Vault!SendDisconnect("status", Vault!None) /\ UNCHANGED <<storing, keysChanged>>
    BY Zenon, <1>3 DEF Vault!toggleConnection
  <2>2. "status" \in Wanted /\ Vault!None \in Nets BY Zenon DEF Wanted, Nets
  <2>3. /\ sites_calls' \in Seq(Call)
        /\ sites_calls = <<>> => \E c \in Call : /\ sites_calls' = <<c>> /\ c.op = "disconnect"
                                           /\ c.d = domain /\ c.n = selectedNet
                                           /\ c.reply = "status" /\ c.to = Vault!None /\ c.seen = local
    BY Zenon, <1>2, <2>1, <2>2, DisconnectSent
  <2>4. VaultTypes' BY Zenon, <1>0, <1>1, <2>1, <2>3 DEF VaultTypes
  <2>5. ASSUME ~disturbed' PROVE Called' /\ sites_calls' # <<>>
    <3>1. Idle BY Zenon, <1>1, <2>5, SettledIdle
    <3>2. PICK c \in Call : /\ sites_calls' = <<c>> /\ c.op = "disconnect"
                            /\ c.d = domain /\ c.n = selectedNet
                            /\ c.reply = "status" /\ c.to = Vault!None /\ c.seen = local
      BY Zenon, <2>3, <3>1 DEF Idle
    <3>3. Intent(c, c.op = "store")' BY Zenon, <1>1, <1>3, <3>2 DEF Intent
    <3>4. Called' BY Zenon, <1>1, <2>1, <3>1, <3>2, <3>3 DEF Called, Idle, Agree, Known
    <3> QED BY Zenon, <3>2, <3>4
  <2> QED BY Zenon, <1>1, <2>4, <2>5 DEF VaultInv, PhaseInv, PairInv
<1>4. CASE ~isConnected
  <2> DEFINE r == [d |-> domain, n |-> selectedNet, reply |-> "status", to |-> Vault!None]
  <2>1. storing' = storing \cup {r} /\ keysChanged' = "no" /\ sites_calls' = sites_calls
    BY Zenon, <1>4 DEF Vault!toggleConnection
  <2>2. r \in Storing /\ r.d = domain /\ r.n = selectedNet /\ r.reply = "status"
    BY Zenon, <1>0, <1>2 DEF Storing, VaultTypes, Wanted, Nets
  <2> HIDE DEF r
  <2>3. VaultTypes' BY Zenon, <1>0, <1>1, <2>1, <2>2 DEF VaultTypes
  <2>4. ASSUME ~disturbed' PROVE Encrypting'
    <3>1. Idle BY Zenon, <1>1, <2>4, SettledIdle
    <3>2. storing' = {r} BY Zenon, <2>1, <3>1 DEF Idle
    <3> QED BY Zenon, <1>1, <1>4, <2>1, <2>2, <3>1, <3>2 DEF Encrypting, Idle, Agree, Known, Switched
  <2> QED BY Zenon, <1>1, <2>1, <2>3, <2>4 DEF VaultInv, PhaseInv, PairInv, Switched
<1> QED BY Zenon, <1>0, <1>3, <1>4 DEF VaultTypes

\* Another net is chosen; a connected one is disconnected first.
LEMMA NetworkKeeps ==
  ASSUME VaultInv, NEW to \in Net \cup {Vault!Manage}, Vault!handleNetworkChange(to)
  PROVE  VaultInv'
<1>0. VaultTypes BY Zenon DEF VaultInv
<1>1. /\ domain # Vault!None /\ disturbed' = (disturbed \/ ~Vault!Settled) /\ to # selectedNet
      /\ UNCHANGED <<local, unstored, connections, domain, isConnected, storing, replies>>
  BY Zenon DEF Vault!handleNetworkChange, Vault!Click
<1>2. domain \in Domain /\ to \in Nets BY Zenon, <1>0, <1>1 DEF VaultTypes, Nets
<1>3. CASE isConnected
  <2>1. Vault!SendDisconnect("switch", to) /\ UNCHANGED <<selectedNet, activeNet, gets, keysChanged>>
    BY Zenon, <1>3 DEF Vault!handleNetworkChange
  <2>2. "switch" \in Wanted BY Zenon DEF Wanted
  <2>3. /\ sites_calls' \in Seq(Call)
        /\ sites_calls = <<>> => \E c \in Call : /\ sites_calls' = <<c>> /\ c.op = "disconnect"
                                           /\ c.d = domain /\ c.n = selectedNet
                                           /\ c.reply = "switch" /\ c.to = to /\ c.seen = local
    BY Zenon, <1>2, <2>1, <2>2, DisconnectSent
  <2>4. VaultTypes' BY Zenon, <1>0, <1>1, <2>1, <2>3 DEF VaultTypes
  <2>5. ASSUME ~disturbed' PROVE Called' /\ sites_calls' # <<>>
    <3>1. Idle BY Zenon, <1>1, <2>5, SettledIdle
    <3>2. PICK c \in Call : /\ sites_calls' = <<c>> /\ c.op = "disconnect"
                            /\ c.d = domain /\ c.n = selectedNet
                            /\ c.reply = "switch" /\ c.to = to /\ c.seen = local
      BY Zenon, <2>3, <3>1 DEF Idle
    <3>3. Intent(c, c.op = "store")' BY Zenon, <1>1, <1>3, <2>1, <3>2 DEF Intent
    <3>4. Called' BY Zenon, <1>1, <2>1, <3>1, <3>2, <3>3 DEF Called, Idle, Agree, Known
    <3> QED BY Zenon, <3>2, <3>4
  <2> QED BY Zenon, <1>1, <2>4, <2>5 DEF VaultInv, PhaseInv, PairInv
<1>4. CASE ~isConnected
  <2>0. Vault!switchNetwork(to) /\ gets' = gets \o Vault!StatusOf(to, domain) /\ sites_calls' = sites_calls
    BY Zenon, <1>4 DEF Vault!handleNetworkChange
  <2>1. CASE to = Vault!Manage
    <3>1. UNCHANGED <<selectedNet, activeNet, keysChanged, sites_calls>> /\ gets' = gets
      BY <1>0, <2>0, <2>1 DEF Vault!switchNetwork, Vault!StatusOf, VaultTypes
    <3>2. VaultTypes' BY Zenon, <1>0, <1>1, <3>1 DEF VaultTypes
    <3>3. ASSUME ~disturbed' PROVE Idle'
      <4>1. Idle BY Zenon, <1>1, <3>3, SettledIdle
      <4> QED BY Zenon, <1>1, <3>1, <4>1 DEF Idle, Agree, Known, Here
    <3>4. PairInv' BY Zenon, <1>1, <3>1 DEF VaultInv, PairInv, Here, Switched, Known
    <3> QED BY Zenon, <3>2, <3>3, <3>4 DEF VaultInv, PhaseInv
  <2>2. CASE to # Vault!Manage
    <3> DEFINE g == Vault!getDomainConnectionStatus(domain, to)
    <3>1. /\ selectedNet' = to /\ activeNet' = to /\ keysChanged' = "no" /\ sites_calls' = sites_calls
          /\ gets' = gets \o <<g>>
      BY Zenon, <2>0, <2>2 DEF Vault!switchNetwork, Vault!StatusOf
    <3>2. g \in Get /\ g.op = "status" /\ g.value = (<<domain, to>> \in connections)
      BY Zenon, <1>0, <1>2, GetTypes DEF Vault!getDomainConnectionStatus
    <3> HIDE DEF g
    <3>3. gets' \in Seq(Get) /\ (gets = <<>> => gets' = <<g>>)
      <4>1. gets \in Seq(Get) /\ <<g>> \in Seq(Get) BY <1>0, <3>2 DEF VaultTypes
      <4>2. gets \o <<g>> \in Seq(Get) BY <4>1
      <4>3. <<>> \o <<g>> = <<g>> BY <4>1
      <4> QED BY Zenon, <3>1, <4>2, <4>3
    <3>4. VaultTypes' BY Zenon, <1>0, <1>1, <1>2, <3>1, <3>3 DEF VaultTypes
    <3>5. ASSUME ~disturbed' PROVE Reading'
      <4>1. Idle BY Zenon, <1>1, <3>5, SettledIdle
      <4> QED BY Zenon, <1>1, <3>1, <3>2, <3>3, <4>1 DEF Idle, Reading, Agree, Known, Here
    <3> QED BY Zenon, <1>1, <3>1, <3>4, <3>5 DEF VaultInv, PhaseInv, PairInv, Switched
  <2> QED BY Zenon, <2>1, <2>2
<1> QED BY Zenon, <1>0, <1>3, <1>4 DEF VaultTypes

\* Another pair was selected: the net shown is disconnected, or was not
\* connected.
LEMMA KeysChangeKeeps ==
  ASSUME VaultInv, Vault!disconnectDueToKeysChange
  PROVE  VaultInv'
<1>0. VaultTypes BY Zenon DEF VaultInv
<1>1. /\ domain # Vault!None /\ disturbed' = (disturbed \/ ~Vault!Settled)
      /\ UNCHANGED <<local, unstored, connections, activeNet, domain, selectedNet, isConnected, storing,
                     replies, gets>>
  BY Zenon DEF Vault!disconnectDueToKeysChange, Vault!Click, Vault!popup
<1>2. domain \in Domain BY Zenon, <1>0, <1>1 DEF VaultTypes
<1>3. CASE isConnected
  <2>1. Vault!SendDisconnect("keys", Vault!None) BY Zenon, <1>3 DEF Vault!disconnectDueToKeysChange
  <2>2. "keys" \in Wanted /\ Vault!None \in Nets BY Zenon DEF Wanted, Nets
  <2>3. /\ sites_calls' \in Seq(Call)
        /\ sites_calls = <<>> => \E c \in Call : /\ sites_calls' = <<c>> /\ c.op = "disconnect"
                                           /\ c.d = domain /\ c.n = selectedNet
                                           /\ c.reply = "keys" /\ c.to = Vault!None /\ c.seen = local
    BY Zenon, <1>2, <2>1, <2>2, DisconnectSent
  <2>4. VaultTypes' BY Zenon, <1>0, <1>1, <2>3 DEF VaultTypes
  <2>5. ASSUME ~disturbed' PROVE Called' /\ sites_calls' # <<>>
    <3>1. Idle BY Zenon, <1>1, <2>5, SettledIdle
    <3>2. PICK c \in Call : /\ sites_calls' = <<c>> /\ c.op = "disconnect"
                            /\ c.d = domain /\ c.n = selectedNet
                            /\ c.reply = "keys" /\ c.to = Vault!None /\ c.seen = local
      BY Zenon, <2>3, <3>1 DEF Idle
    <3>3. Intent(c, c.op = "store")' BY Zenon, <1>1, <3>2 DEF Intent
    <3>4. Called' BY Zenon, <1>1, <3>1, <3>2, <3>3 DEF Called, Idle, Agree, Known
    <3> QED BY Zenon, <3>2, <3>4
  <2> QED BY Zenon, <1>1, <2>4, <2>5 DEF VaultInv, PhaseInv, PairInv
<1>4. CASE ~isConnected
  <2>1. sites_calls' = sites_calls BY Zenon, <1>4 DEF Vault!disconnectDueToKeysChange
  <2>2. VaultTypes' BY Zenon, <1>0, <1>1, <2>1 DEF VaultTypes
  <2>3. ASSUME ~disturbed' PROVE Idle' /\ Here' \notin Known'
    <3>1. Idle BY Zenon, <1>1, <2>3, SettledIdle
    <3> QED BY Zenon, <1>1, <1>4, <2>1, <3>1 DEF Idle, Agree, Known, Here
  <2> QED BY Zenon, <1>1, <2>2, <2>3 DEF VaultInv, PhaseInv, PairInv
<1> QED BY Zenon, <1>0, <1>3, <1>4 DEF VaultTypes

\* The pair was deleted or replaced by an uploaded one: the connection stays.
LEMMA ReplacedKeeps ==
  ASSUME VaultInv, Vault!PairReplaced
  PROVE  VaultInv'
<1>1. /\ UNCHANGED <<local, unstored, connections, activeNet, domain, selectedNet, isConnected,
                     storing, sites_calls, replies, gets, disturbed>>
      /\ ~disturbed /\ ~Switched => ~Switched'
      /\ ~disturbed /\ Switched => Switched'
  BY Zenon DEF Vault!PairReplaced, Vault!Changed, Vault!popup, Vault!queues, Switched
<1>2. VaultTypes' BY Zenon, <1>1 DEF VaultInv, VaultTypes
<1>3. ASSUME ~disturbed, ~Switched PROVE PhaseInv' /\ PairInv'
  BY Zenon, <1>1, <1>3 DEF VaultInv, PhaseInv, PairInv, Idle, Encrypting, Called, Replied,
      Setting, Reading, Agree, Known, Intent, After, Here
<1>4. ASSUME ~disturbed, Switched PROVE PhaseInv' /\ PairInv'
  BY Zenon, <1>1, <1>4 DEF VaultInv, PhaseInv, PairInv, Idle, Encrypting, Called, Replied,
      Setting, Reading, Agree, Known, Intent, After, Here
<1> QED BY Zenon, <1>1, <1>2, <1>3, <1>4 DEF VaultInv, PhaseInv, PairInv

\* A change of the service mode is recorded.
LEMMA ModeKeeps ==
  ASSUME VaultInv, Vault!toggleServiceMode
  PROVE  VaultInv'
<1> DEFINE g == [op |-> "status", d |-> domain, n |-> activeNet, value |-> FALSE, seen |-> {}]
<1>0. VaultTypes BY Zenon DEF VaultInv
<1>1. /\ domain # Vault!None /\ connections' = {} /\ domain' = domain
      /\ selectedNet' = activeNet /\ isConnected' = FALSE /\ gets' = <<g>> /\ disturbed' = TRUE
      /\ UNCHANGED <<local, unstored, activeNet, storing, sites_calls, replies, keysChanged>>
  BY Zenon DEF Vault!toggleServiceMode, Vault!Mount
<1>2. g \in Get BY Zenon, <1>0, <1>1 DEF Get, Pairs, VaultTypes
<1> HIDE DEF g
<1>3. VaultTypes'
  <2>1. <<g>> \in Seq(Get) BY <1>2
  <2>2. connections' \in Pairs BY Zenon, <1>1 DEF Pairs
  <2> QED BY Zenon, <1>0, <1>1, <2>1, <2>2 DEF VaultTypes
<1> QED BY Zenon, <1>1, <1>3 DEF VaultInv, PhaseInv, PairInv

\* storeKeys has encrypted: its get sees the storage as it is now.
LEMMA EncryptedKeeps ==
  ASSUME VaultInv, NEW r \in storing, Vault!storeKeysEncrypted(r)
  PROVE  VaultInv'
<1>0. VaultTypes BY Zenon DEF VaultInv
<1>1. PICK c \in Call : /\ sites_calls' = Append(sites_calls, c)
                       /\ c.op = "store" /\ c.d = r.d /\ c.n = r.n /\ c.reply = r.reply
                       /\ c.to = r.to /\ c.seen = local
  <2> DEFINE x == [op |-> "store", d |-> r.d, n |-> r.n, reply |-> r.reply,
                   to |-> r.to, seen |-> local]
  <2>1. r \in Storing /\ local \in Local BY Zenon, <1>0 DEF VaultTypes
  <2>2. x \in Call BY Zenon, <2>1 DEF Storing, Call
  <2>3. sites_calls' = Append(sites_calls, x) BY Zenon DEF Vault!storeKeysEncrypted
  <2> QED BY Zenon, <2>2, <2>3
<1>2. /\ storing' = storing \ {r}
      /\ UNCHANGED <<local, unstored, connections, activeNet, domain, selectedNet, isConnected,
                     replies, gets, disturbed, keysChanged>>
  BY Zenon DEF Vault!storeKeysEncrypted, Vault!popup, Vault!history
<1>3. sites_calls' \in Seq(Call) /\ sites_calls' # <<>>
  BY <1>0, <1>1 DEF VaultTypes
<1>4. sites_calls = <<>> => sites_calls' = <<c>> BY <1>1
<1>5. VaultTypes' BY Zenon, <1>0, <1>2, <1>3 DEF VaultTypes
<1>6. ASSUME ~disturbed PROVE Called'
  <2>1. Encrypting BY Zenon, <1>6 DEF VaultInv, PhaseInv, Idle, Called, Replied, Setting, Reading
  <2>2. storing = {r} /\ r.d = domain /\ r.n = selectedNet /\ r.reply = "status"
    BY Zenon, <2>1 DEF Encrypting
  <2>3. Intent(c, c.op = "store")' BY Zenon, <1>1, <1>2, <2>1, <2>2 DEF Intent, Encrypting, Switched
  <2>4. storing' = {} /\ sites_calls' = <<c>> /\ replies' = <<>> /\ gets' = <<>> /\ Agree'
    BY Zenon, <1>2, <1>4, <2>1, <2>2 DEF Encrypting, Agree, Known
  <2> QED BY Zenon, <1>1, <1>2, <2>3, <2>4 DEF Called
<1> QED BY Zenon, <1>2, <1>3, <1>5, <1>6 DEF VaultInv, PhaseInv, PairInv, Switched, Known

\* The callback that is due is the first one, and a change under way has only
\* that one.
LEMMA CallDue ==
  ASSUME VaultInv, sites_calls # <<>>
  PROVE  /\ Head(sites_calls) \in Call /\ Tail(sites_calls) \in Seq(Call)
         /\ ~disturbed => /\ storing = {} /\ replies = <<>> /\ gets = <<>> /\ Agree
                          /\ Tail(sites_calls) = <<>> /\ Head(sites_calls).seen = local
                          /\ Intent(Head(sites_calls), Head(sites_calls).op = "store")
<1>1. sites_calls \in Seq(Call) BY Zenon DEF VaultInv, VaultTypes
<1>2. Head(sites_calls) \in Call /\ Tail(sites_calls) \in Seq(Call) BY <1>1
<1>3. ASSUME ~disturbed
      PROVE  /\ storing = {} /\ replies = <<>> /\ gets = <<>> /\ Agree
             /\ Tail(sites_calls) = <<>> /\ Head(sites_calls).seen = local
             /\ Intent(Head(sites_calls), Head(sites_calls).op = "store")
  <2>1. Called BY Zenon, <1>3 DEF VaultInv, PhaseInv, Idle, Encrypting, Replied, Setting, Reading
  <2>2. PICK c \in Call : sites_calls = <<c>> /\ c.seen = local /\ Intent(c, c.op = "store")
    BY Zenon, <2>1 DEF Called
  <2>3. Head(sites_calls) = c /\ Tail(sites_calls) = <<>> BY <2>2
  <2> QED BY Zenon, <2>1, <2>2, <2>3 DEF Called
<1> QED BY Zenon, <1>2, <1>3

\* The background script answers the popup, unless the popup was closed.
LEMMA RespondTypes ==
  ASSUME VaultInv, NEW c \in Call \cup Storing, NEW v \in BOOLEAN, Vault!Respond(c, v)
  PROVE  /\ replies' \in Seq(Msg)
         /\ replies = <<>> /\ c.reply # "none" =>
              \E r \in Msg : /\ replies' = <<r>> /\ r.d = c.d /\ r.n = c.n /\ r.reply = c.reply
                             /\ r.to = c.to /\ r.value = v
<1> DEFINE r == [d |-> c.d, n |-> c.n, reply |-> c.reply, to |-> c.to, value |-> v]
<1>1. r \in Msg BY Zenon DEF Call, Storing, Msg
<1>2. replies' = IF c.reply = "none" THEN replies ELSE Append(replies, r) BY Zenon DEF Vault!Respond
<1>3. r.d = c.d /\ r.n = c.n /\ r.reply = c.reply /\ r.to = c.to /\ r.value = v BY Zenon
<1> HIDE DEF r
<1>4. replies \in Seq(Msg) BY Zenon DEF VaultInv, VaultTypes
<1>5. Append(replies, r) \in Seq(Msg) BY <1>1, <1>4
<1>6. replies' \in Seq(Msg) BY Zenon, <1>2, <1>4, <1>5
<1>7. replies = <<>> /\ c.reply # "none" => replies' = <<r>> BY <1>2
<1> QED BY Zenon, <1>1, <1>3, <1>6, <1>7

\* storeKeys failed: the popup is answered as if it had not.
LEMMA FailsKeeps ==
  ASSUME VaultInv, NEW r \in storing, Vault!storeKeysFails(r)
  PROVE  VaultInv'
<1>0. VaultTypes /\ r \in Storing BY Zenon DEF VaultInv, VaultTypes
<1>1. /\ storing' = storing \ {r} /\ Vault!Respond(r, TRUE)
      /\ unstored' = IF disturbed THEN {} ELSE unstored \cup {<<r.d, r.n>>}
      /\ UNCHANGED <<local, connections, activeNet, domain, selectedNet, isConnected,
                     sites_calls, gets, disturbed, keysChanged>>
  BY Zenon DEF Vault!storeKeysFails, Vault!Unstored, Vault!popup, Vault!history
<1>2. /\ replies' \in Seq(Msg)
      /\ replies = <<>> /\ r.reply # "none" =>
           \E m \in Msg : /\ replies' = <<m>> /\ m.d = r.d /\ m.n = r.n /\ m.reply = r.reply
                          /\ m.to = r.to /\ m.value = TRUE
  BY Zenon, <1>0, <1>1, RespondTypes
<1>3. VaultTypes'
  <2>1. r.d \in Domain /\ r.n \in Nets BY Zenon, <1>0 DEF Storing
  <2>2. unstored' \in Pairs BY <1>0, <1>1, <2>1 DEF VaultTypes, Pairs
  <2> QED BY Zenon, <1>0, <1>1, <1>2, <2>2 DEF VaultTypes
<1>4. ASSUME ~disturbed PROVE Replied' /\ ~Switched'
  <2>1. Encrypting BY Zenon, <1>4 DEF VaultInv, PhaseInv, Idle, Called, Replied, Setting, Reading
  <2>2. /\ storing = {r} /\ r.d = domain /\ r.n = selectedNet /\ r.reply = "status"
        /\ replies = <<>> /\ gets = <<>> /\ sites_calls = <<>> /\ Agree /\ isConnected /\ ~Switched
    BY Zenon, <2>1 DEF Encrypting
  <2>3. PICK m \in Msg : /\ replies' = <<m>> /\ m.d = r.d /\ m.n = r.n /\ m.reply = r.reply
                         /\ m.to = r.to /\ m.value = TRUE
    BY Zenon, <1>2, <2>2
  <2>4. Known' = connections \cup {<<m.d, m.n>>}
    BY Zenon, <1>1, <1>4, <2>2, <2>3 DEF Agree, Known
  <2>5. (Known = After(m))' BY Zenon, <1>1, <2>3, <2>4 DEF After
  <2>6. ~Switched' BY Zenon, <1>1, <2>2 DEF Switched
  <2>7. Intent(m, m.value)' BY Zenon, <1>1, <2>2, <2>3, <2>6 DEF Intent
  <2> QED BY Zenon, <1>1, <2>2, <2>3, <2>5, <2>6, <2>7 DEF Replied
<1> QED BY Zenon, <1>1, <1>3, <1>4 DEF VaultInv, PhaseInv, PairInv

\* storeKeys and disconnectKeys write consistent objects: what the call saw,
\* with this site and net added or removed.
LEMMA WrittenLocal ==
  ASSUME NEW x \in Local, NEW d \in Domain, NEW n \in Nets
  PROVE  /\ [keys |-> x.keys \cup {<<d, n>>}, nets |-> [x.nets EXCEPT ![d] = n]] \in Local
         /\ [keys |-> x.keys \ {<<d, n>>},
             nets |-> IF x.nets[d] = n THEN [x.nets EXCEPT ![d] = Vault!None] ELSE x.nets] \in Local
<1>1. /\ x.keys \in Pairs /\ x.nets \in [Domain -> Nets]
      /\ \A e \in Domain : x.nets[e] # Vault!None => <<e, x.nets[e]>> \in x.keys
  BY Zenon DEF Local
<1>2. [keys |-> x.keys \cup {<<d, n>>}, nets |-> [x.nets EXCEPT ![d] = n]] \in Local
  <2> DEFINE k == x.keys \cup {<<d, n>>}
             f == [x.nets EXCEPT ![d] = n]
  <2>1. k \in Pairs BY <1>1 DEF Pairs
  <2>2. f \in [Domain -> Nets] BY Zenon, <1>1
  <2>3. \A e \in Domain : f[e] # Vault!None => <<e, f[e]>> \in k BY Zenon, <1>1
  <2> HIDE DEF k, f
  <2>4. [keys |-> k, nets |-> f] \in Local BY Zenon, <2>1, <2>2, <2>3 DEF Local
  <2> QED BY Zenon, <2>4 DEF k, f
<1>3. [keys |-> x.keys \ {<<d, n>>},
       nets |-> IF x.nets[d] = n THEN [x.nets EXCEPT ![d] = Vault!None] ELSE x.nets] \in Local
  <2> DEFINE k == x.keys \ {<<d, n>>}
             f == IF x.nets[d] = n THEN [x.nets EXCEPT ![d] = Vault!None] ELSE x.nets
  <2>1. k \in Pairs BY Zenon, <1>1 DEF Pairs
  <2>2. f \in [Domain -> Nets] BY Zenon, <1>1 DEF Nets
  <2>3. \A e \in Domain : f[e] # Vault!None => <<e, f[e]>> \in k
    <3> SUFFICES ASSUME NEW e \in Domain, f[e] # Vault!None PROVE <<e, f[e]>> \in k BY Zenon
    <3>1. CASE e = d
      <4>1. x.nets[d] # n BY Zenon, <1>1, <3>1
      <4>2. f[e] = x.nets[d] BY Zenon, <3>1, <4>1
      <4> QED BY Zenon, <1>1, <3>1, <4>1, <4>2
    <3>2. CASE e # d
      <4>1. f[e] = x.nets[e] BY Zenon, <1>1, <3>2
      <4>2. <<e, f[e]>> # <<d, n>> BY Zenon, <3>2
      <4> QED BY Zenon, <1>1, <4>1, <4>2
    <3> QED BY Zenon, <3>1, <3>2
  <2> HIDE DEF k, f
  <2>4. [keys |-> k, nets |-> f] \in Local BY Zenon, <2>1, <2>2, <2>3 DEF Local
  <2> QED BY Zenon, <2>4 DEF k, f
<1> QED BY Zenon, <1>2, <1>3

\* storeKeys writes the keys and connectedNets, and answers.
LEMMA StoreKeeps ==
  ASSUME VaultInv, Vault!storeKeys
  PROVE  VaultInv'
<1> DEFINE c == Head(sites_calls)
<1>0. VaultTypes BY Zenon DEF VaultInv
<1>1. /\ sites_calls # <<>> /\ c.op = "store"
      /\ local' = [keys |-> c.seen.keys \cup {<<c.d, c.n>>}, nets |-> [c.seen.nets EXCEPT ![c.d] = c.n]]
      /\ unstored' = IF disturbed THEN {} ELSE unstored \ {<<c.d, c.n>>}
      /\ Vault!Respond(c, TRUE) /\ sites_calls' = Tail(sites_calls)
      /\ UNCHANGED <<connections, activeNet, domain, selectedNet, isConnected, storing, gets,
                     disturbed, keysChanged>>
  BY Zenon DEF Vault!storeKeys, Vault!Unstored, Vault!popup, Vault!history
<1>2. /\ c \in Call /\ Tail(sites_calls) \in Seq(Call)
      /\ ~disturbed => /\ storing = {} /\ replies = <<>> /\ gets = <<>> /\ Agree
                       /\ Tail(sites_calls) = <<>> /\ c.seen = local /\ Intent(c, c.op = "store")
  BY Zenon, <1>1, CallDue
<1> HIDE DEF c
<1>3. c.seen \in Local /\ c.d \in Domain /\ c.n \in Nets BY Zenon, <1>2 DEF Call
<1>4. local' \in Local BY Zenon, <1>1, <1>3, WrittenLocal
<1>5. /\ replies' \in Seq(Msg)
      /\ replies = <<>> /\ c.reply # "none" =>
           \E r \in Msg : /\ replies' = <<r>> /\ r.d = c.d /\ r.n = c.n /\ r.reply = c.reply
                          /\ r.to = c.to /\ r.value = TRUE
  BY Zenon, <1>1, <1>2, RespondTypes
<1>6. VaultTypes'
  <2>1. unstored' \in Pairs BY Zenon, <1>0, <1>1 DEF VaultTypes, Pairs
  <2> QED BY Zenon, <1>0, <1>1, <1>2, <1>4, <1>5, <2>1 DEF VaultTypes
<1>7. ASSUME ~disturbed PROVE Replied' /\ ~Switched'
  <2>1. /\ c.d = domain /\ c.n = selectedNet /\ c.reply = "status" /\ isConnected /\ ~Switched
        /\ c.seen = local /\ Agree /\ replies = <<>> /\ storing = {} /\ gets = <<>> /\ Tail(sites_calls) = <<>>
    BY Zenon, <1>1, <1>2, <1>7 DEF Intent
  <2>2. PICK r \in Msg : /\ replies' = <<r>> /\ r.d = c.d /\ r.n = c.n /\ r.reply = c.reply
                         /\ r.to = c.to /\ r.value = TRUE
    BY Zenon, <1>5, <2>1
  <2>3. Known' = connections \cup {<<r.d, r.n>>}
    <3>1. /\ local'.keys = local.keys \cup {<<c.d, c.n>>}
          /\ unstored' = unstored \ {<<c.d, c.n>>}
      BY Zenon, <1>1, <1>7, <2>1
    <3> QED BY Zenon, <2>1, <2>2, <3>1 DEF Agree, Known
  <2>4. (Known = After(r))' BY Zenon, <1>1, <2>2, <2>3 DEF After
  <2>5. Intent(r, r.value)' BY Zenon, <1>1, <2>1, <2>2 DEF Intent, Switched
  <2> QED BY Zenon, <1>1, <2>1, <2>2, <2>4, <2>5 DEF Replied, Switched
<1> QED BY Zenon, <1>1, <1>6, <1>7 DEF VaultInv, PhaseInv, PairInv

\* disconnectKeys removes the keys, if there are any, and answers.
LEMMA DisconnectKeeps ==
  ASSUME VaultInv, Vault!disconnectKeys
  PROVE  VaultInv'
<1> DEFINE c == Head(sites_calls)
           x == [keys |-> c.seen.keys \ {<<c.d, c.n>>},
                 nets |-> IF c.seen.nets[c.d] = c.n
                          THEN [c.seen.nets EXCEPT ![c.d] = Vault!None] ELSE c.seen.nets]
<1>0. VaultTypes BY Zenon DEF VaultInv
<1>1. /\ sites_calls # <<>> /\ c.op = "disconnect"
      /\ local' = IF <<c.d, c.n>> \notin c.seen.keys THEN local ELSE x
      /\ unstored' = IF disturbed THEN {} ELSE unstored \ {<<c.d, c.n>>}
      /\ Vault!Respond(c, FALSE) /\ sites_calls' = Tail(sites_calls)
      /\ UNCHANGED <<connections, activeNet, domain, selectedNet, isConnected, storing, gets,
                     disturbed, keysChanged>>
  BY Zenon DEF Vault!disconnectKeys, Vault!Unstored, Vault!popup, Vault!history
<1>2. /\ c \in Call /\ Tail(sites_calls) \in Seq(Call)
      /\ ~disturbed => /\ storing = {} /\ replies = <<>> /\ gets = <<>> /\ Agree
                       /\ Tail(sites_calls) = <<>> /\ c.seen = local /\ Intent(c, c.op = "store")
  BY Zenon, <1>1, CallDue
<1> HIDE DEF c
<1>3. c.seen \in Local /\ c.d \in Domain /\ c.n \in Nets BY Zenon, <1>2 DEF Call
<1>4. x \in Local /\ x.keys = c.seen.keys \ {<<c.d, c.n>>} BY Zenon, <1>3, WrittenLocal
<1> HIDE DEF x
<1>5. local' \in Local BY Zenon, <1>0, <1>1, <1>4 DEF VaultTypes
<1>6. /\ replies' \in Seq(Msg)
      /\ replies = <<>> /\ c.reply # "none" =>
           \E r \in Msg : /\ replies' = <<r>> /\ r.d = c.d /\ r.n = c.n /\ r.reply = c.reply
                          /\ r.to = c.to /\ r.value = FALSE
  BY Zenon, <1>1, <1>2, RespondTypes
<1>7. VaultTypes'
  <2>1. unstored' \in Pairs BY Zenon, <1>0, <1>1 DEF VaultTypes, Pairs
  <2> QED BY Zenon, <1>0, <1>1, <1>2, <1>5, <1>6, <2>1 DEF VaultTypes
<1>8. ASSUME ~disturbed PROVE Replied' /\ Here' \notin Known'
  <2>1. /\ c.d = domain /\ c.n = selectedNet /\ c.reply # "none"
        /\ c.reply = "status" => ~isConnected
        /\ c.reply = "switch" => c.to # c.n
        /\ c.seen = local /\ Agree /\ replies = <<>> /\ storing = {} /\ gets = <<>> /\ Tail(sites_calls) = <<>>
    BY Zenon, <1>1, <1>2, <1>8 DEF Intent
  <2>2. PICK r \in Msg : /\ replies' = <<r>> /\ r.d = c.d /\ r.n = c.n /\ r.reply = c.reply
                         /\ r.to = c.to /\ r.value = FALSE
    BY Zenon, <1>6, <2>1
  <2>3. Known' = connections \ {<<r.d, r.n>>}
    <3>1. /\ local'.keys = local.keys \ {<<c.d, c.n>>}
          /\ unstored' = unstored \ {<<c.d, c.n>>}
      BY Zenon, <1>1, <1>4, <1>8, <2>1
    <3> QED BY Zenon, <2>1, <2>2, <3>1 DEF Agree, Known
  <2>4. (Known = After(r))' BY Zenon, <1>1, <2>2, <2>3 DEF After
  <2>5. Intent(r, r.value)' BY Zenon, <1>1, <2>1, <2>2 DEF Intent
  <2>6. Replied' BY Zenon, <1>1, <2>1, <2>2, <2>4, <2>5 DEF Replied
  <2> QED BY Zenon, <1>1, <2>1, <2>2, <2>3, <2>6 DEF Here
<1> QED BY Zenon, <1>1, <1>7, <1>8 DEF VaultInv, PhaseInv, PairInv, Switched

\* The answer of the background script: the popup marks the change it was
\* for, and a switch of the net reads the status of the next one.
LEMMA ReplyKeeps ==
  ASSUME VaultInv, Vault!Reply
  PROVE  VaultInv'
<1>0. VaultTypes BY Zenon DEF VaultInv
<1>1. PICK r : /\ replies # <<>> /\ r = Head(replies) /\ replies' = Tail(replies)
               /\ isConnected' = IF r.reply = "status" THEN isConnected ELSE FALSE
               /\ \/ /\ r.reply = "switch" /\ Vault!switchNetwork(r.to)
                     /\ gets' = Append(gets, Vault!setDomainConnectionStatus(r.d, r.n, r.value))
                                \o Vault!StatusOf(r.to, r.d)
                  \/ /\ r.reply # "switch"
                     /\ gets' = Append(gets, Vault!setDomainConnectionStatus(r.d, r.n, r.value))
                     /\ UNCHANGED <<selectedNet, activeNet, keysChanged>>
               /\ UNCHANGED <<local, unstored, connections, domain, storing, sites_calls, disturbed>>
  BY Zenon DEF Vault!Reply
<1>2. r \in Msg /\ replies' \in Seq(Msg) BY <1>0, <1>1 DEF VaultTypes
<1>3. PICK g \in Get : /\ g = Vault!setDomainConnectionStatus(r.d, r.n, r.value)
                       /\ g.op = "set" /\ g.d = r.d /\ g.n = r.n /\ g.value = r.value
                       /\ g.seen = connections
  <2>1. Vault!setDomainConnectionStatus(r.d, r.n, r.value) \in Get
    BY Zenon, <1>0, <1>2, GetTypes DEF Msg
  <2> QED BY Zenon, <2>1 DEF Vault!setDomainConnectionStatus
<1>4. gets \in Seq(Get) /\ Append(gets, g) \in Seq(Get) BY <1>0, <1>3 DEF VaultTypes
\* The three ways on: the net stays, or it is switched to another one.
<1>5. CASE /\ gets' = Append(gets, g)
           /\ UNCHANGED <<selectedNet, activeNet, keysChanged>>
  <2>1. VaultTypes' BY Zenon, <1>0, <1>1, <1>2, <1>4, <1>5 DEF VaultTypes
  <2>2. ASSUME ~disturbed PROVE Setting' /\ sites_calls = <<>>
    <3>1. Replied BY Zenon, <1>1, <2>2 DEF VaultInv, PhaseInv, Idle, Encrypting, Called, Setting, Reading
    <3>2. PICK m \in Msg : replies = <<m>> /\ Known = After(m) /\ Intent(m, m.value)
      BY Zenon, <3>1 DEF Replied
    <3>3. r = m /\ replies' = <<>> BY <1>1, <3>2
    <3>4. isConnected' = g.value /\ g.d = domain /\ g.n = selectedNet
      BY Zenon, <1>0, <1>1, <1>2, <1>3, <3>2, <3>3 DEF Intent, Msg, VaultTypes
    <3>5. gets' = <<g>> BY <1>5, <3>1 DEF Replied
    <3>6. Known' = After(g)' BY Zenon, <1>1, <1>3, <3>2, <3>3 DEF After, Known
    <3>7. storing' = {} /\ sites_calls' = <<>> /\ sites_calls = <<>> BY Zenon, <1>1, <3>1 DEF Replied
    <3> QED BY Zenon, <1>1, <1>3, <1>5, <3>3, <3>4, <3>5, <3>6, <3>7 DEF Setting
  <2> QED BY Zenon, <1>1, <1>5, <2>1, <2>2 DEF VaultInv, PhaseInv, PairInv, Here, Switched, Known
<1>6. CASE /\ r.reply = "switch" /\ r.to # Vault!Manage
           /\ selectedNet' = r.to /\ activeNet' = r.to /\ ~Switched'
           /\ gets' = Append(gets, g) \o <<Vault!getDomainConnectionStatus(r.d, r.to)>>
  <2>1. PICK h \in Get : /\ h = Vault!getDomainConnectionStatus(r.d, r.to)
                         /\ h.op = "status" /\ h.value = (<<r.d, r.to>> \in connections)
    <3>1. Vault!getDomainConnectionStatus(r.d, r.to) \in Get
      BY Zenon, <1>0, <1>2, GetTypes DEF Msg
    <3> QED BY Zenon, <3>1 DEF Vault!getDomainConnectionStatus
  <2>2. gets' \in Seq(Get)
    <3>1. <<h>> \in Seq(Get) BY <2>1
    <3>2. Append(gets, g) \o <<h>> \in Seq(Get) BY SMTT(30), <1>4, <3>1
    <3> QED BY Zenon, <1>6, <2>1, <3>2
  <2>3. VaultTypes' BY Zenon, <1>0, <1>1, <1>2, <1>6, <2>2 DEF VaultTypes, Msg
  <2>4. ASSUME ~disturbed PROVE Setting'
    <3>1. Replied BY Zenon, <1>1, <2>4 DEF VaultInv, PhaseInv, Idle, Encrypting, Called, Setting, Reading
    <3>2. PICK m \in Msg : replies = <<m>> /\ Known = After(m) /\ Intent(m, m.value)
      BY Zenon, <3>1 DEF Replied
    <3>3. r = m /\ replies' = <<>> BY SMTT(30), <1>1, <3>2
    <3>4. g.d = domain /\ r.to # g.n BY Zenon, <1>3, <1>6, <3>2, <3>3 DEF Intent
    <3>5. gets' = <<g, h>>
      <4>1. Append(gets, g) = <<g>> BY <3>1 DEF Replied
      <4>2. <<g>> \o <<h>> = <<g, h>>
        <5> DEFINE s == <<g>> \o <<h>>
        <5>1. <<g>> \in Seq(Get) /\ <<h>> \in Seq(Get) BY <2>1
        <5>2. s \in Seq(Get) /\ Len(s) = 2 /\ s[1] = g /\ s[2] = h BY <5>1
        <5>3. <<g, h>> \in Seq(Get) /\ Len(<<g, h>>) = 2 BY <2>1
        <5> HIDE DEF s
        <5>4. s = <<g, h>> BY <5>2, <5>3
        <5> QED BY Zenon, <5>4 DEF s
      <4> QED BY Zenon, <1>6, <2>1, <4>1, <4>2
    <3>6. Known' = After(g)' BY Zenon, <1>1, <1>3, <3>2, <3>3 DEF After, Known
    <3>7. storing' = {} /\ sites_calls' = <<>> BY Zenon, <1>1, <3>1 DEF Replied
    <3>8. h.value = (Here \in connections)' BY Zenon, <1>1, <1>3, <1>6, <2>1, <3>4 DEF Here
    <3> QED BY Zenon, <1>1, <1>3, <1>6, <2>1, <3>3, <3>4, <3>5, <3>6, <3>7, <3>8 DEF Setting
  <2> QED BY Zenon, <1>1, <1>6, <2>3, <2>4 DEF VaultInv, PhaseInv, PairInv
<1>7. CASE r.reply = "switch"
  <2>1. CASE r.to = Vault!Manage
    <3>1. Vault!StatusOf(r.to, r.d) = <<>> /\ UNCHANGED <<selectedNet, activeNet, keysChanged>>
      BY Zenon, <1>1, <1>7, <2>1 DEF Vault!StatusOf, Vault!switchNetwork
    <3>2. Append(gets, g) \o <<>> = Append(gets, g) BY <1>4
    <3>3. gets' = Append(gets, g) BY Zenon, <1>1, <1>3, <1>7, <3>1, <3>2
    <3> QED BY Zenon, <1>5, <3>1, <3>3
  <2>2. CASE r.to # Vault!Manage
    <3>1. /\ selectedNet' = r.to /\ activeNet' = r.to /\ ~Switched'
          /\ Vault!StatusOf(r.to, r.d) = <<Vault!getDomainConnectionStatus(r.d, r.to)>>
      BY Zenon, <1>1, <1>7, <2>2 DEF Vault!StatusOf, Vault!switchNetwork, Switched
    <3> QED BY Zenon, <1>1, <1>3, <1>6, <1>7, <2>2, <3>1
  <2> QED BY Zenon, <2>1, <2>2
<1>8. CASE r.reply # "switch" BY Zenon, <1>1, <1>3, <1>5, <1>8
<1> QED BY Zenon, <1>7, <1>8

\* The popup's get: connections is written, or the status is shown.
LEMMA GotKeeps ==
  ASSUME VaultInv, Vault!Got
  PROVE  VaultInv'
<1>0. VaultTypes BY Zenon DEF VaultInv
<1>1. PICK g : /\ gets # <<>> /\ g = Head(gets) /\ gets' = Tail(gets)
               /\ IF g.op = "set"
                  THEN /\ connections' = IF g.value THEN g.seen \cup {<<g.d, g.n>>}
                                                    ELSE g.seen \ {<<g.d, g.n>>}
                       /\ UNCHANGED isConnected
                  ELSE isConnected' = g.value /\ UNCHANGED connections
               /\ UNCHANGED <<local, unstored, activeNet, domain, selectedNet, storing, sites_calls, replies,
                              disturbed, keysChanged>>
  BY Zenon DEF Vault!Got, Vault!history
<1>2. g \in Get /\ gets' \in Seq(Get) BY <1>0, <1>1 DEF VaultTypes
<1>3. connections' \in Pairs /\ isConnected' \in BOOLEAN
  BY <1>0, <1>1, <1>2 DEF VaultTypes, Get, Pairs
<1>4. VaultTypes' BY Zenon, <1>0, <1>1, <1>2, <1>3 DEF VaultTypes
<1>5. ASSUME ~disturbed PROVE Idle' \/ Reading'
  <2>1. Setting \/ Reading
    BY Zenon, <1>1, <1>5 DEF VaultInv, PhaseInv, Idle, Encrypting, Called, Replied
  <2>2. CASE Reading
    <3>1. PICK h \in Get : gets = <<h>> /\ h.op = "status" /\ h.value = (Here \in connections)
      BY Zenon, <2>2 DEF Reading
    <3>2. g = h /\ gets' = <<>> BY <1>1, <3>1
    <3>3. connections' = connections /\ isConnected' = (Here \in connections)
      BY Zenon, <1>1, <3>1, <3>2
    <3> QED BY Zenon, <1>1, <2>2, <3>2, <3>3 DEF Reading, Idle, Agree, Known, Here
  <2>3. CASE Setting
    <3>1. PICK s \in Get :
            /\ s.op = "set" /\ s.seen = connections /\ Known = After(s) /\ s.d = domain
            /\ \/ gets = <<s>> /\ s.n = selectedNet /\ isConnected = s.value
               \/ /\ s.n # selectedNet
                  /\ \E h \in Get : /\ gets = <<s, h>> /\ h.op = "status"
                                    /\ h.value = (Here \in connections)
      BY Zenon, <2>3 DEF Setting
    <3>2. g = s BY <1>1, <3>1
    <3>3. connections' = After(s) /\ isConnected' = isConnected BY Zenon, <1>1, <3>1, <3>2 DEF After
    <3>4. Agree' BY Zenon, <1>1, <3>1, <3>3 DEF Agree, Known
    <3>5. CASE gets = <<s>> /\ s.n = selectedNet /\ isConnected = s.value
      <4>1. gets' = <<>> BY <1>1, <3>5
      <4>2. isConnected' = (Here \in connections)'
        BY SMTT(30), <1>0, <1>1, <3>1, <3>3, <3>5 DEF After, Here, VaultTypes, Get
      <4> QED BY Zenon, <1>1, <2>3, <3>4, <4>1, <4>2 DEF Setting, Idle
    <3>6. ASSUME NEW h \in Get, gets = <<s, h>>, h.op = "status",
                 h.value = (Here \in connections), s.n # selectedNet
          PROVE  Reading'
      <4>1. gets' = <<h>> BY <1>1, <3>6
      <4>2. h.value = (Here \in connections)'
        <5>1. <<s.d, s.n>> # Here BY Zenon, <3>6 DEF Here
        <5> QED BY SMTT(30), <1>1, <3>3, <3>6, <5>1 DEF After, Here
      <4> QED BY Zenon, <1>1, <2>3, <3>4, <3>6, <4>1, <4>2 DEF Setting, Reading
    <3> QED BY Zenon, <3>1, <3>5, <3>6
  <2> QED BY Zenon, <2>1, <2>2, <2>3
<1> QED BY Zenon, <1>1, <1>4, <1>5 DEF VaultInv, PhaseInv, PairInv, Here, Switched, Known

\* Every step of the popup and the background script keeps the invariant.
LEMMA VaultNext == VaultInv /\ [Vault!Next]_(Vault!vars) => VaultInv'
<1> SUFFICES ASSUME VaultInv, [Vault!Next]_(Vault!vars) PROVE VaultInv' BY Zenon
<1>1. ASSUME NEW d \in Domain, Vault!OpenPopup(d) PROVE VaultInv' BY Zenon, <1>1, OpenKeeps
<1>2. CASE Vault!ClosePopup BY Zenon, <1>2, CloseKeeps
<1>3. CASE Vault!toggleConnection BY Zenon, <1>3, ToggleKeeps
<1>4. ASSUME NEW to \in Net \cup {Vault!Manage}, Vault!handleNetworkChange(to)
      PROVE  VaultInv'
  BY Zenon, <1>4, NetworkKeeps
<1>5. CASE Vault!disconnectDueToKeysChange BY Zenon, <1>5, KeysChangeKeeps
<1>6. CASE Vault!toggleServiceMode BY Zenon, <1>6, ModeKeeps
<1>7. CASE Vault!Reply BY Zenon, <1>7, ReplyKeeps
<1>8. CASE Vault!Got BY Zenon, <1>8, GotKeeps
<1>9. ASSUME NEW r \in storing, Vault!storeKeysEncrypted(r) PROVE VaultInv'
  BY Zenon, <1>9, EncryptedKeeps
<1>10. CASE Vault!storeKeys BY Zenon, <1>10, StoreKeeps
<1>11. CASE Vault!disconnectKeys BY Zenon, <1>11, DisconnectKeeps
<1>12. CASE Vault!handleDeleteKeyPair BY Zenon, <1>12, ReplacedKeeps DEF Vault!handleDeleteKeyPair
<1>13. CASE Vault!handleKeyPairFileUpload
  BY Zenon, <1>13, ReplacedKeeps DEF Vault!handleKeyPairFileUpload
<1>14. ASSUME NEW r \in storing, Vault!storeKeysFails(r) PROVE VaultInv'
  BY Zenon, <1>14, FailsKeeps
<1>15. CASE UNCHANGED Vault!vars
  BY Zenon, <1>15 DEF Vault!vars, Vault!popup, Vault!queues, Vault!history, VaultInv, VaultTypes,
               PhaseInv, PairInv, Idle, Encrypting, Called, Replied, Setting, Reading,
               Agree, Known, Switched, Intent, After, Here
<1> QED BY Zenon, <1>1, <1>2, <1>3, <1>4, <1>5, <1>6, <1>7, <1>8, <1>9, <1>10, <1>11, <1>12,
           <1>13, <1>14, <1>15
        DEF Vault!Next

\* What the wallet keeps about a site stays in step, for every set of sites
\* and nets and every number of requests under way (background.js,
\* Dashboard.jsx): a connected net has keys, the two records agree once
\* everything is answered, except where storeKeys failed, and a switch to
\* another pair disconnects.
THEOREM ConnectionsStaySafe == Vault!Spec => []ConnectionsSafe
<1>1. VaultInv => ConnectionsSafe
  <2> SUFFICES ASSUME VaultInv PROVE ConnectionsSafe BY Zenon
  <2>1. Vault!ConnectedHasKeys
    BY Zenon DEF VaultInv, VaultTypes, Local, Vault!ConnectedHasKeys, Vault!checkConnectionStatus
  <2>2. Vault!ConnectionsAreKeys BY Zenon, SettledIdle DEF Vault!ConnectionsAreKeys, Idle, Agree, Known
  <2>3. Vault!KeyChangeDisconnects
    BY Zenon, SettledIdle DEF Vault!KeyChangeDisconnects, Idle, VaultInv, PairInv, Here, Switched, Known
  <2> QED BY Zenon, <2>1, <2>2, <2>3 DEF ConnectionsSafe, Vault!ConnectionsSafe
<1> QED BY <1>1, VaultInit, VaultNext, PTL DEF Vault!Spec

=============================================================================
