---------------------------- MODULE MCEventLog ----------------------------
(* A small instance of EventLog: batches of two, logs with records that are  *)
(* too large, malformed, filtered or not convertible, two threads that    *)
(* read side by side and share a provider's metadata.                        *)
EXTENDS EventLog, TLC

CONSTANTS t1, t2

Tok(type, tag, name, text) == [type |-> type, tag |-> tag, name |-> name, text |-> text]
Elem(tag, name, text) ==
    <<Tok("Start", tag, name, "")>> \o
    (IF text = "" THEN <<>> ELSE <<Tok("Text", "", "", text)>>) \o <<Tok("End", tag, "", "")>>

\* An empty named field before a value without a name, a named value twice, a
\* value with a reference in it, and an empty one before a Binary.
Xml == <<Tok("Start", "System", "", ""), Tok("Start", "Provider", "", "P"),
         Tok("End", "Provider", "", "")>> \o Elem("EventID", "", "4688")
       \o <<Tok("Empty", "Execution", "", "12"), Tok("End", "System", "", ""),
            Tok("Start", "EventData", "", "")>>
       \o Elem("Data", "CommandLine", "") \o Elem("Data", "", "x")
       \o Elem("Data", "User", "SYSTEM") \o Elem("Data", "User", "me")
       \o <<Tok("Start", "Data", "Path", ""), Tok("Text", "", "", "a"), Tok("Ref", "", "", "&"),
            Tok("Text", "", "", "b"), Tok("End", "Data", "", "")>>
       \o Elem("Data", "Note", "") \o Elem("Binary", "", "00") \o <<Tok("End", "EventData", "", "")>>

Good == [valuesFit |-> TRUE, xmlFits |-> TRUE, wellFormed |-> TRUE, kept |-> TRUE,
         converts |-> TRUE, chosen |-> TRUE, level |-> 4, id |-> 4688, provider |-> "P",
         message |-> 2, xml |-> Xml,
         values |-> <<<<8, "4688">>, <<4, "4">>, <<21, "P">>, <<1, "Security">>>>]
Large == [Good EXCEPT !.valuesFit = FALSE, !.xmlFits = FALSE]
Broken == [Good EXCEPT !.wellFormed = FALSE]
Refused == [Good EXCEPT !.kept = FALSE, !.converts = FALSE, !.values = <<<<8, "1">>>>]
Chatty == [Good EXCEPT !.message = 3]
Endless == [Good EXCEPT !.message = 9]
Other == [Good EXCEPT !.level = 5, !.chosen = FALSE]

MCRecord == "Good" :> Good
            @@ "Large" :> Large
            @@ "Broken" :> Broken
            @@ "Refused" :> Refused
            @@ "Chatty" :> Chatty
            @@ "Endless" :> Endless
            @@ "Other" :> Other

All == [xpath |-> TRUE, level |-> 0, provider |-> "", event_id |-> 0]
Job(kind, format, log) == [kind |-> kind, format |-> format, data |-> FALSE, message |-> FALSE,
                           fields |-> {}, builder |-> All, log |-> log]
Query == [Job("query", "Values", <<"Good", "Other", "Large", "Large", "Large", "Good">>)
              EXCEPT !.builder = [xpath |-> FALSE, level |-> 4, provider |-> "", event_id |-> 4688]]
Plain == Job("query", "Values", <<"Good", "Large", "Good">>)
Filter == [Job("filter", "Values", <<"Good", "Refused", "Large", "Endless">>) EXCEPT !.message = TRUE, !.data = TRUE]
Results == [Job("results", "Xml", <<"Broken", "Other", "Good", "Good", "Chatty">>)
                EXCEPT !.message = TRUE, !.data = TRUE]
Raw == [Job("raw", "Values", <<"Refused", "Good", "Large">>) EXCEPT !.fields = {<<1, 8>>, <<3, 21>>}]
Owned == Job("deserialize", "Xml", <<"Large", "Refused", "Good">>)
Channels == [Job("channels", "Values", <<"Good", "Refused", "Good">>) EXCEPT !.builder.xpath = FALSE]

MCPrograms ==
    {t1 :> x @@ t2 :> y : x \in {Query, Plain, Filter}, y \in {Filter, Results, Raw, Owned, Channels}}
=============================================================================
