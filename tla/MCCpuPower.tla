----------------------------- MODULE MCCpuPower -----------------------------
EXTENDS CpuPower

\* No frequencies, fewer than NOM_FREQ_INDEX, and more than MAX_FREQ_NUMBER.
MCTables == {<<>>, <<300, 600>>, <<300, 350, 600, 800, 1008, 1200, 1300>>}
=============================================================================
