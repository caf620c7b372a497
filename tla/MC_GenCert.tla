----------------------------- MODULE MC_GenCert -----------------------------
EXTENDS GenCert
MC_Paths == {"P1", "P2", "P3"}
MC_Argvs == {<<>>, <<"--create-identity-key">>, <<"-r">>,
             <<"--create-identity-key", "-m", "25">>,
             <<"-s", "P1">>, <<"-i", "P2", "-s", "P1", "-r">>, <<"-i", "P2", "-i", "P3">>, <<"-m">>,
             <<"-a", "v6addr">>, <<"-r", "-a", "v4addr", "-v">>,
             <<"--passphrase-fd", "3", "-m", "P1">>, <<"-h">>, <<"-x">>}
=============================================================================
