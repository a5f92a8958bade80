----------------------------- MODULE MCSessions -----------------------------
(* Two tabs and two users, interchangeable: an OAuth provider with four      *)
(* random values while the time stands still, and with fewer while it        *)
(* passes; and the proxy.                                                    *)
EXTENDS Sessions, TLC

OAuthTabs == [beyond |-> FALSE, maxClock |-> 0, maxTokens |-> 4]
OAuthTime == [beyond |-> FALSE, maxClock |-> 2, maxTokens |-> 2]
Proxy == [beyond |-> TRUE, maxClock |-> 2, maxTokens |-> 2]

AllDeployments == {OAuthTabs, OAuthTime, Proxy}

Interchangeable == Permutations(Users) \cup Permutations(Tabs)
=============================================================================
