----------------------------- MODULE MCWebPage -----------------------------
EXTENDS WebPageProperties, TLC

\* Messages are alike, and so are channels where all of them may drop
OfMessages == Permutations(Message)
Symmetric == {p @@ q : p \in OfMessages, q \in Permutations(Channel)}
=============================================================================
