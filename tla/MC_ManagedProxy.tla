--------------------------- MODULE MC_ManagedProxy ---------------------------
(***************************************************************************)
(* Bounds for ManagedProxy.  Two proxy command lines and two transport    *)
(* names let two proxies announce the same name (a registry conflict) and *)
(* a config read change a proxy's transports; one outgoing proxy URI      *)
(* besides NULL lets a config read change the URI and a proxy confirm or  *)
(* ignore it.  Two creations allow a proxy to be created, destroyed by    *)
(* a config read and created again; one METHOD line per launch lets a     *)
(* proxy announce a name that another proxy also announces.               *)
(***************************************************************************)
EXTENDS ManagedProxy

CONSTANTS obfs4, meek, U1, None

MC_NArgv == 2
MC_Transports == {obfs4, meek}
MC_ProxyUris == {None, U1}
MC_MaxMps == 2
MC_MaxMethods == 1
=============================================================================
