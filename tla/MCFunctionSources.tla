-------------------------- MODULE MCFunctionSources --------------------------
(* Two functions; the first one may have all its files and import a shared *)
(* one.                                                                    *)
EXTENDS FunctionSources

MCInitial ==
    {<<"a", "index.ts">>, <<"a", "helper.ts">>, <<"a", "deno.json">>, <<"b", "run.sh">>, shared}
=============================================================================
