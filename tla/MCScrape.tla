------------------------------- MODULE MCScrape -------------------------------
(* Overlapping pages: the API's list shifts while it is read. Two materials *)
(* show the same video, the third none.                                     *)
EXTENDS Scrapes
CONSTANTS m1, m2, m3, v
List == <<{}, {m1, m2}, {m2, m3}>>
Videos == m1 :> v @@ m2 :> v @@ m3 :> NoVideo
=============================================================================
