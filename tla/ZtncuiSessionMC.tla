-------------------------- MODULE ZtncuiSessionMC --------------------------
\* Three calls, two servers, and a row that first gets another login at the same
\* server and then another server.
EXTENDS ZtncuiSession, TLC

CONSTANTS o1, o2, o3, here, there

MCHosts == <<here, here, there>>

\* Two renamings, one beside an edit, or three calls of other kinds.
MCPlans ==
    {o1 :> "rename" @@ o2 :> "rename" @@ o3 :> None, o1 :> "rename wide" @@ o2 :> "edit" @@ o3 :> None}
    \cup {o1 :> "act" @@ o2 :> k @@ o3 :> l : k \in {"act", "edit"}, l \in {"test", "edit", "remove"}}
=============================================================================
