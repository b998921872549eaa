------------------------------- MODULE MCPanels -------------------------------
EXTENDS Panels

\* Of the combo box: three profiles, two of which sort alike, and at most two
\* connections.
MCComboNcps == {"a", "b", "c"}
MCPlaceOf == [n \in MCComboNcps |-> IF n = "a" THEN 1 ELSE 2]
MCDevs == {1, 2}

\* Of addresses: one address and one route; both families in use, or only IPv4
\* by hand.
Config(on4, d4, a4, on6, a6, r) ==
    [on |-> [v4 |-> on4, v6 |-> on6], dhcp |-> [v4 |-> d4, v6 |-> on6],
     addrs |-> [v4 |-> a4, v6 |-> a6], route |-> [v4 |-> r, v6 |-> 0], enabled |-> TRUE]
MCConfigs == {Config(TRUE, TRUE, <<1>>, TRUE, <<1>>, 1), Config(TRUE, FALSE, <<1>>, FALSE, <<>>, 0)}

\* Of profiles: the automatic profile, which is 1, and two names.
MCProfileNames == {1, 2, 3}
MCIds == 1 .. 5

\* Of rules: two profiles and two connections; rules about them, about a domain
\* and about an address.
MCObjectNames == [ncp |-> <<"p1", "p2">>, ncu |-> <<"d1", "d2">>, enm |-> <<>>, loc |-> <<>>]
MCSubjects == {"ncp", "ncu", "ip", "adv", "bssid", "none"}
MCTexts == {"", "address", "network", "word"}
Condition(f, c, v) == [field |-> f, cond |-> c, value |-> v]
MCConditions ==
    {<<>>,
     <<Condition("ncp", "is", "p2"), Condition("ncu", "is-not", "link:d2")>>,
     <<Condition("ip", "in-range", "network")>>,
     <<Condition("ncp", "is-not", "p2")>>,
     <<Condition("ncu", "is", "interface:d3"), Condition("adv", "contains", "word")>>}

\* Of views: an NCP with a wireless NCU and a wired one that cannot be read,
\* another with a wired one.
MCViewNcps == {"p1", "p2"}
MCViewedNcus == {"w", "e1", "e2"}
OfThem(w, e1, e2) ==
    [n \in MCViewedNcus |-> CASE n = "w" -> w [] n = "e1" -> e1 [] n = "e2" -> e2]
MCNcpOf == OfThem("p1", "p1", "p2")
MCWireless == {"w"}
MCIfaceOf == OfThem({"unread", "down", "up"}, {"unread"}, {"unread", "down", "up"})
MCLinkOf == OfThem({"unread", "key"}, {"unread"}, {"unread"})
MCModesOf == OfThem({"manual"}, {"manual"}, {"manual", "prioritized"})

===============================================================================
