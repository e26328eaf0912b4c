------------------------------- MODULE MCCron -------------------------------
\* Jobs for the days of a week, read off on two of them; and jobs at a minute or at any
\* time, of those days, that may give a month, read off in that month and the one before.
EXTENDS Crontab

Always == {<<Wild>>}
Days == Always \cup {<<1>>, <<1, 2>>}

MCTimeLists == <<Always, Always, Always, Always, Days \cup {<<2>>}>>
MCReadings == {<<0, 6, 1, 1, day>> : day \in 1 .. 2}

MCDatedLists == <<Always \cup {<<0>>}, Always, Always, Always \cup {<<2>>}, Days>>
MCDates == {<<minute, 6, 1, month, day>> : minute \in 0 .. 1, month \in 1 .. 2, day \in 1 .. 2}
=============================================================================
