---------------------------- MODULE MCAutoconf ----------------------------
\* A small instance of Autoconf: AFP_DIR is the same in both editions, DST_DIR
\* is not.
EXTENDS Autoconf

CONSTANTS i1, i2

MCParam == {"AFP_DIR", "DST_DIR"}
MCDefault == [p \in MCParam |-> ""]
MCEdition == {<<"AFP_DIR", "/afp", "DST_DIR", "/dst1">>,
              <<"AFP_DIR", "/afp", "DST_DIR", "/dst2">>}
=============================================================================
