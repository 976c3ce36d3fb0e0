------------------------------ MODULE SiteApp ------------------------------
(***************************************************************************)
(* A web application made from the create-resilient-app templates, the     *)
(* ResVault SDK it talks through, the content script ResVault injects in   *)
(* its page, and the background script that signs and sends transactions.  *)
(*                                                                         *)
(* The application shows Login until it holds a session, then              *)
(* TransactionForm.  Both post a message to the page, the content script   *)
(* opens a modal over the page, and the modal's button makes the           *)
(* background script send a transaction.  The answer comes back to the     *)
(* page as a message that says neither which request it answers nor of     *)
(* which kind that request was: whatever component is mounted takes it.    *)
(*                                                                         *)
(* Template chooses the React or the Vue templates, which treat a failed   *)
(* login differently; their JavaScript and TypeScript forms are alike.     *)
(***************************************************************************)
EXTENDS Naturals, Sequences

CONSTANTS
    Template,   \* "react" or "vue"
    MaxOut      \* bound: requests, answers and timers under way at a time

TemplateAssumption == Template \in {"react", "vue"}

VARIABLES
    connected,        \* keys of this site and net are in chrome.storage
    isAuthenticated,  \* App's state, or the Vuex store's
    loading,          \* isLoadingAfterLogin
    stored,           \* a token is in sessionStorage
    timers,           \* 2 s timers of handleLogin that have not fired
    loginModal,       \* resVaultLoginModal is displayed
    txModal,          \* resVaultModal is displayed
    checks,           \* Authenticate clicks awaiting checkConnectionStatus
    requests,         \* requests at the background script
    posts,            \* messages posted to the page, first sent first
    sessionBy,        \* history: the kind of request whose answer logged in
    shown,            \* history: the kind of request the form last reported
    asked,            \* history: Authenticate clicked, nothing seen since
    crossed,          \* history: a logout while a commit was under way
    twice,            \* history: a login asked during another, or with a session
    dropped           \* history: a disconnect while a login was asked

page == <<isAuthenticated, loading, stored, timers>>
modals == <<loginModal, txModal, checks>>
history == <<sessionBy, shown, asked, crossed, twice, dropped>>
vars == <<connected, page, modals, requests, posts, history>>

Kind == {"login", "commit"}
\* The answers of the background script: success true, success false, and
\* the object with an error and no success field; and the content script's
\* own message 'error'.
Data == {"ok", "failed", "noKeys", "error"}

Request == [kind : Kind, state : {"sent", "fetching"}]
Post == [kind : Kind, data : Data]

\* Each component's guard for being mounted.
LoginMounted == ~isAuthenticated \/ (Template = "react" /\ loading)
FormMounted == ~LoginMounted

\* A modal covers the whole page.
Uncovered == ~loginModal /\ ~txModal

UnderWay(kind) ==
    \/ \E i \in DOMAIN requests : requests[i].kind = kind
    \/ \E i \in DOMAIN posts : posts[i].kind = kind

Room == checks + Len(requests) + Len(posts) + timers < MaxOut

Init ==
    /\ connected \in BOOLEAN
    /\ isAuthenticated = FALSE
    /\ loading = FALSE
    /\ stored = FALSE
    /\ timers = 0
    /\ loginModal = FALSE
    /\ txModal = FALSE
    /\ checks = 0
    /\ requests = <<>>
    /\ posts = <<>>
    /\ sessionBy = "none"
    /\ shown = "none"
    /\ asked = FALSE
    /\ crossed = FALSE
    /\ twice = FALSE
    /\ dropped = FALSE

-----------------------------------------------------------------------------
(* The page: components, SDK and browser.                                  *)

\* Login's button; handleLoginOperation shows the login modal.
handleAuthentication ==
    /\ LoginMounted
    /\ Uncovered
    /\ loginModal' = TRUE
    /\ UNCHANGED <<connected, page, txModal, checks, requests, posts, history>>

\* TransactionForm's button; handleCommitOperation shows the transaction
\* modal.  A form that does not validate, and an amount left blank, change
\* nothing here.
handleSubmit ==
    /\ FormMounted
    /\ Uncovered
    /\ txModal' = TRUE
    /\ UNCHANGED <<connected, page, loginModal, checks, requests, posts, history>>

\* Only the Vue store also stops the loader.
handleLogout ==
    /\ FormMounted
    /\ Uncovered
    /\ isAuthenticated' = FALSE
    /\ loading' = IF Template = "vue" THEN FALSE ELSE loading
    /\ stored' = FALSE
    /\ sessionBy' = "none"
    /\ shown' = "none"
    /\ crossed' = (crossed \/ UnderWay("commit"))
    /\ UNCHANGED <<connected, timers, modals, requests, posts,
                   asked, twice, dropped>>

\* The callback of handleLogin's setTimeout.  It does not ask whether the
\* session it opens is still there.
loginTimer ==
    /\ timers > 0
    /\ timers' = timers - 1
    /\ isAuthenticated' = TRUE
    /\ loading' = FALSE
    /\ UNCHANGED <<connected, stored, modals, requests, posts, history>>

\* The page is loaded anew: what the page and its content script held is
\* gone, the answers to its requests too; sessionStorage stays, and the
\* effect of App, or initializeAuth, reads it.
Reload ==
    /\ isAuthenticated' = stored
    /\ loading' = FALSE
    /\ timers' = 0
    /\ loginModal' = FALSE
    /\ txModal' = FALSE
    /\ checks' = 0
    /\ requests' = <<>>
    /\ posts' = <<>>
    /\ asked' = FALSE
    /\ shown' = "none"
    /\ UNCHANGED <<connected, stored, sessionBy, crossed, twice, dropped>>

\* handleLogin of App, the action login of the store.
handleLogin(kind) ==
    /\ loading' = TRUE
    /\ stored' = TRUE
    /\ timers' = timers + 1
    /\ sessionBy' = kind
    /\ asked' = FALSE
    /\ UNCHANGED <<isAuthenticated, shown>>

\* The error modal of Login.
showErrorModal ==
    /\ loading' = IF Template = "vue" THEN FALSE ELSE loading
    /\ asked' = FALSE
    /\ UNCHANGED <<isAuthenticated, stored, timers, sessionBy, shown>>

Ignored == UNCHANGED <<isAuthenticated, loading, stored, timers,
                       sessionBy, shown, asked>>

\* Login's handler in the React templates.
ReactLoginHandler(m) ==
    \/ m.data = "ok" /\ handleLogin(m.kind)
    \/ m.data = "error" /\ showErrorModal
    \/ m.data \in {"failed", "noKeys"} /\ Ignored

\* Mutant: as in the React templates, a failed login is not reported.
VueLoginQuiet(m) ==
    \/ m.data = "ok" /\ handleLogin(m.kind)
    \/ m.data = "error" /\ showErrorModal
    \/ m.data \in {"failed", "noKeys"} /\ Ignored

\* Login's handler in the Vue templates.
VueLoginHandler(m) ==
    \/ m.data = "ok" /\ handleLogin(m.kind)
    \/ m.data \in {"failed", "error"} /\ showErrorModal
    \/ m.data = "noKeys" /\ Ignored

\* TransactionForm's handler.
FormHandler(m) ==
    /\ shown' = IF m.data \in {"ok", "failed"} THEN m.kind ELSE shown
    /\ UNCHANGED <<isAuthenticated, loading, stored, timers, sessionBy, asked>>

\* A message event: the SDK hands it to the listener of the component that
\* is mounted.
handleMessage ==
    /\ posts # <<>>
    /\ posts' = Tail(posts)
    /\ LET m == Head(posts) IN
        \/ LoginMounted /\ Template = "react" /\ ReactLoginHandler(m)
        \/ LoginMounted /\ Template = "vue" /\ VueLoginHandler(m)
        \/ FormMounted /\ FormHandler(m)
    /\ UNCHANGED <<connected, modals, requests, crossed, twice, dropped>>

-----------------------------------------------------------------------------
(* The content script.                                                     *)

\* The Close buttons of the two modals.
CloseModal ==
    /\ ~Uncovered
    /\ loginModal' = FALSE
    /\ txModal' = FALSE
    /\ UNCHANGED <<connected, page, checks, requests, posts, history>>

\* The click on Authenticate, up to the await.  The modal stays until the
\* check is done, so it may be clicked again.
AuthenticateClick ==
    /\ loginModal
    /\ Room
    /\ checks' = checks + 1
    /\ asked' = TRUE
    /\ twice' = (twice \/ checks > 0 \/ stored \/ UnderWay("login"))
    /\ UNCHANGED <<connected, page, loginModal, txModal, requests, posts,
                   sessionBy, shown, crossed, dropped>>

\* What follows the await: a login request, or the message 'error'.
checkConnectionStatus ==
    /\ checks > 0
    /\ checks' = checks - 1
    /\ loginModal' = FALSE
    /\ requests' = IF connected
                   THEN Append(requests, [kind |-> "login", state |-> "sent"])
                   ELSE requests
    /\ posts' = IF connected
                THEN posts
                ELSE Append(posts, [kind |-> "login", data |-> "error"])
    /\ UNCHANGED <<connected, page, txModal, history>>

\* The Submit button of the transaction modal.
handleTransactionSubmit ==
    /\ txModal
    /\ Room
    /\ txModal' = FALSE
    /\ requests' = Append(requests, [kind |-> "commit", state |-> "sent"])
    /\ UNCHANGED <<connected, page, loginModal, checks, posts, history>>

-----------------------------------------------------------------------------
(* The background script.                                                  *)

\* s without its i-th request, which is answered.
Without(s, i) == SubSeq(s, 1, i - 1) \o SubSeq(s, i + 1, Len(s))

\* The storage callback: go on to sign and fetch, or answer at once.
ReadKeys(i) ==
    /\ requests[i].state = "sent"
    /\ requests' = IF connected
                   THEN [requests EXCEPT ![i].state = "fetching"]
                   ELSE Without(requests, i)
    /\ posts' = IF connected
                THEN posts
                ELSE Append(posts, [kind |-> requests[i].kind,
                                    data |-> "noKeys"])

\* Mutant: the request is sent again after its answer.
AnswerAgain(i) ==
    /\ requests[i].state = "fetching"
    /\ requests' = [requests EXCEPT ![i].state = "sent"]
    /\ \E data \in {"ok", "failed"} :
        posts' = Append(posts, [kind |-> requests[i].kind, data |-> data])

\* The answer of the service, or an exception on the way to it; answers come
\* in any order.
Answer(i) ==
    /\ requests[i].state = "fetching"
    /\ requests' = Without(requests, i)
    /\ \E data \in {"ok", "failed"} :
        posts' = Append(posts, [kind |-> requests[i].kind, data |-> data])

submitTransaction ==
    /\ \E i \in DOMAIN requests :
        requests[i].kind = "commit" /\ (ReadKeys(i) \/ Answer(i))
    /\ UNCHANGED <<connected, page, modals, history>>

submitLoginTransaction ==
    /\ \E i \in DOMAIN requests :
        requests[i].kind = "login" /\ (ReadKeys(i) \/ Answer(i))
    /\ UNCHANGED <<connected, page, modals, history>>

\* The user connects or disconnects the site in ResVault's popup.
ToggleConnection ==
    /\ connected' = ~connected
    /\ dropped' = (dropped \/ asked)
    /\ UNCHANGED <<page, modals, requests, posts,
                   sessionBy, shown, asked, crossed, twice>>

-----------------------------------------------------------------------------
Scripts ==
    \/ loginTimer
    \/ handleMessage
    \/ checkConnectionStatus
    \/ submitTransaction
    \/ submitLoginTransaction

Next ==
    \/ handleAuthentication
    \/ handleSubmit
    \/ handleLogout
    \/ Reload
    \/ CloseModal
    \/ AuthenticateClick
    \/ handleTransactionSubmit
    \/ ToggleConnection
    \/ Scripts

Spec == Init /\ [][Next]_vars

-----------------------------------------------------------------------------
\* The state has its types and the bound on what is under way holds.
TypeOK ==
    /\ {connected, isAuthenticated, loading, stored, loginModal, txModal,
        asked, crossed, twice, dropped} \subseteq BOOLEAN
    /\ requests \in Seq(Request) /\ posts \in Seq(Post)
    /\ {timers, checks} \subseteq Nat
    /\ checks + Len(requests) + Len(posts) + timers <= MaxOut
    /\ {sessionBy, shown} \subseteq Kind \cup {"none"}

\* A session is opened by the answer to a login request, never by the answer
\* to a commit, as long as the user did not log out while a commit was under
\* way.  (When they did, the commit's success reaches Login's handler, which
\* cannot tell it from a login's and logs the user in again.)
LoginByLogin == ~crossed => sessionBy # "commit"

\* TransactionForm reports the outcome of transactions of the form, not of a
\* login, as long as one login is under way at a time and no commit's answer
\* was taken for a login's.  A second click on Authenticate before the
\* connection check ends is enough to break it.
FormReportsCommits == ~crossed /\ ~twice => shown # "login"

\* A user who logged out stays logged out: the form is shown only with a
\* token in sessionStorage, under the same two conditions.  A second pending
\* timer would open the form again without a session.
LogoutSticks == ~crossed /\ ~twice => (isAuthenticated => stored)

\* Only a login opens a session, the form reports transactions and no
\* logins, and a user who logged out stays logged out, although answers name
\* no request (templates, content.js, background.js).
SessionsHonest == LoginByLogin /\ FormReportsCommits /\ LogoutSticks

\* A login that stored a token ends at the form: the 2 s timer, or a reload,
\* opens the session unless the user logs out.
SessionOpens == stored ~> (isAuthenticated \/ ~stored)

\* After a click on Authenticate the user of a Vue application sees the
\* loader or a message, unless the site's connection was toggled meanwhile
\* (then the background script's answer has no success field and is dropped)
\* or logins overlap (then the form may take the answer).  The React
\* templates drop the answer of a failed login too.
LoginAnswered == asked ~> (~asked \/ dropped \/ twice \/ crossed)

=============================================================================
