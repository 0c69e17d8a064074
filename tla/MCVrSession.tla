---------------------------- MODULE MCVrSession ----------------------------
\* VrSession with the orders in which a process may load its video plugins.
EXTENDS VrSession

\* A stock plugin never comes after a dual one.
MCNeverBack == {<<"none", "dual">>, <<"none", "mono">>, <<"mono", "mono">>,
                <<"mono", "dual">>, <<"dual", "dual">>}

MCAnyOrder == MCNeverBack \cup {<<"dual", "mono">>}
=============================================================================
