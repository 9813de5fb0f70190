------------------------------- MODULE Traefik -------------------------------
(***************************************************************************)
(* The Traefik configuration of a server, as generate_client_config makes  *)
(* it from the server's addons.  A name f"{kind}-{subdomain}" is the pair  *)
(* <<kind, s>>.                                                            *)
(***************************************************************************)
EXTENDS Sequences

\* The addons the file depends on; the others leave no trace in it.
Addon == {"bot_filter", "geoip", "gtm_js_proxy"}

Chain(s, addons) ==
    << <<"rate-limit", s>> >>
    \o (IF "bot_filter" \in addons THEN << <<"bot-filter", s>> >> ELSE << >>)
    \o (IF "geoip" \in addons THEN << <<"geoip", s>> >> ELSE << >>)
    \o << <<"headers", s>> >>

Middlewares(s, addons) ==
    {<<"rate-limit", s>>, <<"headers", s>>}
    \cup (IF "bot_filter" \in addons THEN {<<"bot-filter", s>>} ELSE {})
    \cup (IF "geoip" \in addons THEN {<<"geoip", s>>} ELSE {})

Own(s)      == <<"gtm", s>>
Preview(s)  == <<"gtm-preview", s>>
ProxyServer == <<"proxy-server", "shared">>

Services(s, addons) ==
    {Own(s), Preview(s)} \cup (IF "gtm_js_proxy" \in addons THEN {ProxyServer} ELSE {})

\* Slip: everything goes through the proxy server, collection hits too.
RoutersNoProxy(s, addons) ==
    {[host |-> Own(s), paths |-> "all", service |-> ProxyServer, chain |-> Chain(s, addons)],
     [host |-> Preview(s), paths |-> "all", service |-> Preview(s), chain |-> << >>]}
Routers(s, addons) ==
    LET proxied == "gtm_js_proxy" \in addons
    IN  {[host |-> Own(s), paths |-> "all", chain |-> Chain(s, addons),
          service |-> IF proxied THEN ProxyServer ELSE Own(s)],
         [host |-> Preview(s), paths |-> "all", chain |-> << >>, service |-> Preview(s)]}
        \cup IF ~proxied THEN {}
             ELSE {[host |-> Own(s), paths |-> "collect", chain |-> Chain(s, addons),
                    service |-> Own(s)]}

\* Traefik can load the file: what a router names is defined.
Resolves(s, addons) ==
    \A r \in Routers(s, addons) :
        /\ r.service \in Services(s, addons)
        /\ \A i \in DOMAIN r.chain : r.chain[i] \in Middlewares(s, addons)

\* The router that takes collection hits: the one with the more specific rule.
CollectRouters(s, addons) ==
    LET own == {r \in Routers(s, addons) : r.host = Own(s)}
        specific == {r \in own : r.paths = "collect"}
    IN  IF specific # {} THEN specific ELSE own
==============================================================================
