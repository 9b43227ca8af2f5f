-------------------------- MODULE MCActionDispatch --------------------------
(* Small instances of ActionDispatch: three kinds, a generated operation     *)
(* table for one of them, and service lists with the default names, with an  *)
(* extra instance declared after its namesake, and with one before it.       *)
EXTENDS ActionDispatch

MCKinds == {"sonarr", "qbittorrent", "plex"}
MCCapabilityOf == [k \in MCKinds |->
    CASE k = "sonarr" -> "arr" [] k = "qbittorrent" -> "download" [] OTHER -> "media"]
MCCurated == [a \in {"download_queue", "download_remove"} |-> "download"]
MCReads == {"download_queue"}
MCDestructive == {"download_remove"}
MCOps == {<<"sonarr", "list">>, <<"sonarr", "delete">>}
MCDeleteOps == {<<"sonarr", "delete">>}

S(n, k) == [name |-> n, kind |-> k, url |-> TRUE]
MCLists == {<<S("sonarr", "sonarr"), S("qbittorrent", "qbittorrent")>>,
            <<S("sonarr", "sonarr"), S("sonarr4k", "sonarr"),
              [S("qbittorrent", "qbittorrent") EXCEPT !.url = FALSE]>>}
MCExtraFirst == {<<S("sonarr4k", "sonarr"), S("sonarr", "sonarr")>>}

R(sf, t, a, s, o, cf) ==
    [surface |-> sf, tool |-> t, action |-> a, service |-> s, op |-> o, confirm |-> cf,
     elicits |-> TRUE, auth |-> TRUE, scopes |-> {"write"}]
Tool(t, a, o, cf) == R("mcp", t, a, "none", o, cf)
MCRequests ==
    {Tool("yarr", "none", "none", FALSE),
     Tool("sonarr", "none", "none", FALSE),
     Tool("sonarr", "bogus", "none", FALSE),
     Tool("plex", "api_get", "none", FALSE),
     Tool("sonarr", "download_remove", "none", TRUE),
     Tool("sonarr", "op", "delete", FALSE)}
    \cup {[Tool("sonarr", "api_delete", "none", cf) EXCEPT !.elicits = e] :
             cf \in BOOLEAN, e \in BOOLEAN}
    \cup {[Tool("qbittorrent", "download_queue", "none", FALSE) EXCEPT !.scopes = s, !.auth = u] :
             s \in SUBSET {"read"}, u \in BOOLEAN}
    \cup {R("cli", "none", a, "sonarr", "delete", cf) :
             a \in {"op", "api_delete"}, cf \in BOOLEAN}
    \cup {R("script", "none", a, "sonarr4k", "delete", TRUE) : a \in {"op", "api_delete", "codemode"}}
    \cup {R("script", "none", "snippet_run", "none", "none", FALSE),
          R("script", "none", "op", "sonarr", "list", FALSE)}
=============================================================================
