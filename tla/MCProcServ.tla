---------------------------- MODULE MCProcServ -----------------------------
(* The instance TLC checks: a procServ IOC and a Python IOC in one module,  *)
(* and then an IOC with the name of the first.                              *)
EXTENDS ProcServ

MCNameOf == <<"A", "B", "A">>
MCClass == <<"procserv", "python", "ioc">>
MCUses == {{"toggle", "restart"}, {"macros", "quit"}, {"start", "save"}}
=============================================================================
