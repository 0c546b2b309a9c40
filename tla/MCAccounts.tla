------------------------------ MODULE MCAccounts ------------------------------
\* Instances of Accounts for TLC: two threads, two users, one token.
EXTENDS Accounts, TLC

\* Threads, users and tokens are interchangeable.
AccountsSymmetry == Permutations(Threads) \cup Permutations(Users)

=============================================================================
