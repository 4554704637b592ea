----------------------------- MODULE MCShareKeys -----------------------------
EXTENDS ShareKeys

MCUsers == {"ann", "bob"}
MCItems == 1..2
MCTexts == {"x", "y", "z"}
MCSaid == <<"x", "y">>
=============================================================================
