-------------------------------- MODULE MCLoRa --------------------------------
EXTENDS LoRa

CONSTANT r3

\* One request is about another box than the two others.
MCAbout == [r \in Request |-> IF r = r3 THEN "the second box" ELSE "the first box"]
===============================================================================
