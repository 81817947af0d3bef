--------------------------- MODULE MCHubRegistry ---------------------------
\* Two browsers and room for one hub: the two panels of one come together, the
\* other's takes the hub's place; a panel is opened twice, or a link is lost
\* and made again while the earlier socket is still being served.
EXTENDS HubRegistry

MCClients == {"a", "b"}
MCPanels == {"a1", "a2", "b1"}
MCClientOf == [p \in MCPanels |-> IF p = "b1" THEN "b" ELSE "a"]
=============================================================================
