---------------------------- MODULE MCConnections ----------------------------
\* Connections with interchangeable accounts, states, users, browsers and requests.
EXTENDS Connections, TLC

Interchangeable == Permutations(Accounts) \cup Permutations(States)
                   \cup Permutations(Users) \cup Permutations(Requests)

=============================================================================
