----------------------------- MODULE MCHistory -----------------------------
EXTENDS HistoryStreamer, TLC

\* Address 1 has a history, address 2 has none.
MCVertices == 1 :> 1 @@ 2 :> 0
MCLists == {<<>>, <<1>>, <<2, 1>>}
MCXpubList == <<1, 2, 2>>
=============================================================================
