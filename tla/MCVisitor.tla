----------------------------- MODULE MCVisitor ------------------------------
(* A finite instance of Visitor for TLC.                                   *)
EXTENDS Visitor

\* ? = & % and two hexadecimal digits.
MCBytes == {63, 61, 38, 37, 52, 97}
MCUrls == UNION {[1..n -> MCBytes] : n \in 0..5} \cup {<<b>> : b \in 0..255}

\* The name, and cookies that have it, contain it or do not; values that are an
\* id, mixed, without a digit, with a '=', not UTF-8 and empty.
MCName == <<117>>
MCValues == {<<49>>, <<120, 49>>, <<120>>, <<49, 61, 49>>, <<255>>, <<>>}
MCCookies == [name : {MCName, <<120>>, <<120, 117>>}, value : MCValues]
MCJars == {<<>>} \cup {<<c>> : c \in MCCookies}
          \cup {<<c, d>> : c, d \in MCCookies} 
\* One visit for each query; two for each jar of cookies.
MCVisits == [url : MCUrls, jar : {<<>>}, visits : {1}]
            \cup [url : {<<63, 97, 61, 52>>}, jar : {j \in MCJars : Len(j) = 2 => j[1].name # j[2].name}, visits : {2}]
=============================================================================
