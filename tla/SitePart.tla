------------------------------ MODULE SitePart ------------------------------
(***************************************************************************)
(* A site as one of the parts of MCParts: the state and the constants of   *)
(* SiteApp under the names they have there.                                *)
(***************************************************************************)
CONSTANTS Template, MaxOut

VARIABLES connected, isAuthenticated, loading, site_stored, timers,
          loginModal, txModal, checks, requests, posts, sessionBy, shown,
          asked, crossed, twice, dropped

Site == INSTANCE SiteApp WITH stored <- site_stored

\* Only a login opens a session, the form reports transactions and no
\* logins, and a user who logged out stays logged out, although answers name
\* no request (templates, content.js, background.js).
SessionsHonest == Site!SessionsHonest
=============================================================================
