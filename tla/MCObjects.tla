----------------------------- MODULE MCObjects -----------------------------
(* What the library reads and writes in objects others use too: permissions, *)
(* registry values and subkeys, files reached through guarded paths, copied  *)
(* from raw volumes or analysed as executables, proxy settings.  A behaviour *)
(* follows one of these modules, of Files the guarded paths, the copy or the  *)
(* images.                                                                   *)
EXTENDS MCPermissionEdit, Files, Proxy, Registry

VARIABLE part  \* the module this behaviour follows

---------------------------------------------------------------------------
(* Registry: texts around the size of the first buffer, lists, and values    *)
(* other programs write with another type or without terminators.            *)

MCTexts == {<<>>, <<1>>, <<1, 2>>, <<1, 0, 1>>, <<2, 1, 2, 1>>}
MCLists == {<<>>, <<<<1>>>>, <<<<1, 2>>, <<1>>>>, <<<<1>>, <<>>, <<2>>>>}
MCForeign ==
    { [type |-> "EXPAND", data |-> <<2, 0>>],
      [type |-> "MULTI", data |-> <<1, 0, 0, 2, 0>>],
      [type |-> "DWORD", data |-> <<3>>] }

---------------------------------------------------------------------------
(* Files: one that ends inside a cluster and has an empty extent, an empty   *)
(* file, one whose first extent is short, a sparse one with a hole.          *)

Piece(next, lcn) == [next |-> next, lcn |-> lcn]
MCLayouts ==
    { [size |-> 7, start |-> 0, extents |-> <<Piece(3, 10), Piece(3, 20), Piece(4, 5)>>],
      [size |-> 0, start |-> 0, extents |-> <<>>],
      [size |-> 4, start |-> 0, extents |-> <<Piece(1, 3), Piece(2, 8)>>],
      [size |-> 5, start |-> 0, extents |-> <<Piece(1, 3), Piece(2, -1), Piece(3, 8)>>] }

\* An executable that imports from two DLLs, by name and by ordinal, with a
\* descriptor between them whose name is nowhere; the same one cut short, with
\* no imports, with data past the largest integer, and with cut headers.  What
\* each declares is written down by hand.
Library(n) == <<"text", n>>
Whole ==
    [headers |-> 5, imports |-> 2,
     sections |-> <<[va |-> 11, vsize |-> 3, raw |-> 10, rsize |-> 3],
                    [va |-> 2, vsize |-> 9, raw |-> 1, rsize |-> 4]>>,
     cells |-> << <<"descriptor", 6, 11, 0>>, <<"descriptor", 6, 14, 0>>, <<"descriptor", 0, 12, 9>>, Empty,
                  <<"rva", 13>>, <<"ordinal", 5>>, <<"zero">>, <<"ordinal", 7>>, <<"zero">>,
                  Library("kernel32"), Library("ws2_32"), <<"text", "exit">> >>,
     declared |-> << <<Library("kernel32"), <<"text", "exit">> >>, <<Library("kernel32"), <<"ordinal", 5>> >>,
                     <<Library("ws2_32"), <<"ordinal", 7>> >> >>]
MCImages ==
    { Whole,
      [Whole EXCEPT !.cells = SubSeq(@, 1, 11), !.declared = SubSeq(@, 2, 3)],
      [Whole EXCEPT !.imports = 0, !.declared = <<>>],
      [Whole EXCEPT !.sections = <<[va |-> 2, vsize |-> 6, raw |-> 14, rsize |-> 6]>>, !.declared = <<>>],
      [Whole EXCEPT !.headers = 3, !.declared = <<>>] }

ASSUME \A im \in MCImages : analyze_pe_bytes(im).imports = im.declared

\* A proxy for everything and one for a scheme; a scheme without an endpoint; a
\* blank server.  The first is there to begin with where the policy is per user.
Proxies == << <<"", "p:1">>, <<"http", "q:2">> >>
MCServers == {Proxies, << <<"http", "">> >>, << >>}

---------------------------------------------------------------------------
MCInit ==
    /\ part \in {"permissions", "registry", "files", "copy", "image", "proxy"}
    /\ Init /\ owner = u
    /\ part # "permissions" => dacl = <<>> /\ parent = <<>>
    /\ RegistryInit /\ keys \in (IF part = "registry" THEN {{1, 2}, {1, 2, 3}} ELSE {{}})
    /\ FileInit /\ (part # "files" => file = NoFile) /\ (part # "copy" => layout.size = 0)
    /\ (part # "image" => image.imports = 0)
    /\ ProxyInit /\ (part # "proxy" => ~perUser)
    /\ settings["LocalMachine"] = settings["CurrentUser"]
    /\ LET s == settings["CurrentUser"]
       IN  /\ ~s.detect /\ ~s.url /\ s.enable = Given(s.server)
           /\ s.server = IF perUser THEN Proxies ELSE NoValue

MCNext ==
    \/ part = "permissions" /\ Next /\ UNCHANGED <<part, registryVars, fileVars, proxyVars>>
    \/ part = "registry" /\ RegistryNext /\ UNCHANGED <<part, vars, fileVars, proxyVars>>
    \/ part = "files" /\ FileNext /\ UNCHANGED <<part, image, rawVars, vars, registryVars, proxyVars>>
    \/ part = "copy" /\ FileNext /\ UNCHANGED <<part, image, safe, vars, registryVars, proxyVars>>
    \/ part = "image" /\ FileNext /\ UNCHANGED <<part, safe, rawVars, vars, registryVars, proxyVars>>
    \/ part = "proxy" /\ ProxyNext /\ UNCHANGED <<part, vars, registryVars, fileVars>>

MCSpec == MCInit /\ [][MCNext]_<<part, vars, registryVars, fileVars, proxyVars>>

=============================================================================
