----------------------------- MODULE MarketData -----------------------------
(***************************************************************************)
(* The figures the specialists get from the market (tools/market): fields  *)
(* of the provider, news, and the indicators computed from a year of       *)
(* closing prices.  A figure that cannot be had is null and named in       *)
(* data_warnings.  An indicator is a quotient of whole numbers, rounded to *)
(* as many decimals as the code keeps; the volatility, a square root, is   *)
(* left out.                                                               *)
(***************************************************************************)
EXTENDS Integers, Sequences, FiniteSets, SequencesExt, Sums

CONSTANTS Null,
          Cent,        \* units of a close that make a cent
          MinHistory,  \* sessions a history must have
          RsiDays,     \* 14
          ShortDays,   \* 50, the window of sma_50
          LongDays,    \* 200, of sma_200
          Months,      \* the fields return_1m_pct ... with their days, 21, 63 and 126
          NewsLimit    \* headlines asked for

OtherFigures == {"last_close", "return_1y_pct", "sma_50", "sma_200", "price_vs_sma50_pct",
                 "price_vs_sma200_pct", "rsi_14", "max_drawdown_1y_pct"}

ASSUME MarketConstants ==
    /\ RsiDays \in Nat \ {0} /\ MinHistory \in Nat /\ RsiDays < MinHistory
    /\ ShortDays \in Nat \ {0} /\ LongDays \in Nat \ {0} /\ NewsLimit \in Nat
    /\ Cent \in Nat \ {0}
    /\ \A m \in DOMAIN Months : Months[m] \in Nat \ {0}
    /\ DOMAIN Months \cap OtherFigures = {}
    /\ Null \notin Int /\ Null \notin [num : Int, den : Int]

Quotient(n, d)    == [num |-> n, den |-> d]
AtMost(q, r)      == q.num * r.den <= r.num * q.den

\* round: the nearest whole number, one of the two at a tie, which floats decide.
Rounded(n, d) == CHOOSE v \in n \div d .. n \div d + 1 : 2 * (v * d - n) \in -d .. d

\* A quotient as a figure, times n and over d, if there is one.
Shown(q, n, d) == IF q = Null THEN Null ELSE Rounded(n * q.num, d * q.den)

SumOfLast(seq, n) == SumTo([k \in 1 .. n |-> seq[Len(seq) - n + k]], n)

\* _null_warnings
NullWarnings(data) == {f \in DOMAIN data : data[f] = Null}
Warned(data)       == [figures |-> data, data_warnings |-> NullWarnings(data)]

\* get_fundamentals, get_risk_metrics, get_analyst_sentiment: each of a tool's fields is
\* what the provider has under a key of its own, if it has it.
InfoTool(fields, info) ==
    Warned([f \in fields |-> IF f \in DOMAIN info THEN info[f] ELSE Null])

\* get_recent_news
News(items) ==
    LET headlines == SubSeq(items, 1, Min({NewsLimit, Len(items)}))
    IN  [headlines |-> headlines,
         data_warnings |-> IF headlines = <<>> THEN {"no recent news found"} ELSE {}]
-----------------------------------------------------------------------------
(* Technicals of closing prices, oldest first, none of them 0.             *)

\* A plausible bug, a variant of the operator that follows it.
RunningMax_Overall(close, i) == Max(Range(close))

RunningMax(close, i) == Max(Range(SubSeq(close, 1, i)))

\* The mean of the last days, null when there are fewer.
Sma(close, days) ==
    IF Len(close) < days THEN Null ELSE Quotient(SumOfLast(close, days), days)

\* The change against the close that many days ago.
PctReturn(close, days) ==
    LET n == Len(close)
    IN  IF n <= days THEN Null ELSE Quotient(close[n] - close[n - days], close[n - days])

VsSma(close, days) ==
    LET sma == Sma(close, days)
    IN  IF sma = Null THEN Null
        ELSE Quotient(Last(close) * sma.den - sma.num, sma.num)

\* Gains and losses of the last RsiDays changes; 100 when there are no losses, even if
\* there are no gains.
Rsi(close) ==
    LET n       == Len(close)
        Change(k) == close[n - k + 1] - close[n - k]
        gain    == SumTo([k \in 1 .. RsiDays |-> Max({Change(k), 0})], RsiDays)
        loss    == SumTo([k \in 1 .. RsiDays |-> Max({-Change(k), 0})], RsiDays)
    IN  IF loss = 0 THEN Quotient(1, 1) ELSE Quotient(gain, gain + loss)

\* The deepest fall below the highest close before it.
MaxDrawdown(close) ==
    LET falls == {Quotient(close[i] - RunningMax(close, i), RunningMax(close, i)) : i \in DOMAIN close}
    IN  CHOOSE q \in falls : \A r \in falls : AtMost(q, r)

Returns     == DOMAIN Months \cup {"return_1y_pct"}
FigureNames == DOMAIN Months \cup OtherFigures

\* Returns and distances are in hundredths of a percent, averages in cents, the RSI in
\* tenths and the drawdown in tenths of a percent.  The year's return is that since the
\* first close, however short the history.
Figure(close, f) == CASE f \in DOMAIN Months         -> Shown(PctReturn(close, Months[f]), 10000, 1)
                      [] f = "last_close"            -> Rounded(Last(close), Cent)
                      [] f = "return_1y_pct"         -> Shown(PctReturn(close, Len(close) - 1), 10000, 1)
                      [] f = "sma_50"                -> Shown(Sma(close, ShortDays), 1, Cent)
                      [] f = "sma_200"               -> Shown(Sma(close, LongDays), 1, Cent)
                      [] f = "price_vs_sma50_pct"    -> Shown(VsSma(close, ShortDays), 10000, 1)
                      [] f = "price_vs_sma200_pct"   -> Shown(VsSma(close, LongDays), 10000, 1)
                      [] f = "rsi_14"                -> Shown(Rsi(close), 1000, 1)
                      [] f = "max_drawdown_1y_pct"   -> Shown(MaxDrawdown(close), 1000, 1)

\* _compute_technicals
Technicals(close) ==
    IF Len(close) < MinHistory
    THEN [figures |-> <<>>, data_warnings |-> {"insufficient price history"}]
    ELSE Warned([f \in FigureNames |-> Figure(close, f)])
-----------------------------------------------------------------------------
\* An average and the distance of the last close from it agree with the closes of its
\* window: the average lies between two of them, half a cent aside, and the distance is
\* positive only if one is below the last close, negative only if one is above.
CoherentAverage(close, days, sma, vs) ==
    LET n      == Len(close)
        window == n - days + 1 .. n
    IN  /\ \E i \in window : 2 * close[i] - Cent <= 2 * Cent * sma
        /\ \E i \in window : 2 * Cent * sma <= 2 * close[i] + Cent
        /\ vs > 0 => \E i \in window : close[i] < close[n]
        /\ vs < 0 => \E i \in window : close[n] < close[i]

\* The indicators of one history agree with each other and with it, however ties are
\* rounded.  A figure is null, and reported missing, exactly when the history is too short
\* for the days its name says; but the year's return never is: it is that of whatever
\* history there is, a month's on the history of a month.  No return is worse than the
\* drawdown by more than the 0.05 points the drawdown's rounding hides; the drawdown is 0
\* if no close is below an earlier one, and 0 only if none is by more than 0.05 %; the RSI
\* lies between 0 and 100, is 100 if no recent day lost, even if none gained, and 0 if some
\* lost and none gained.
CoherentTechnicals(close) ==
    LET t   == Technicals(close)
        fig == t.figures
        n   == Len(close)
        Short(f) == \/ f \in DOMAIN Months /\ n <= Months[f]
                    \/ f \in {"sma_50", "price_vs_sma50_pct"} /\ n < ShortDays
                    \/ f \in {"sma_200", "price_vs_sma200_pct"} /\ n < LongDays
        fallen == {p \in (1 .. n) \X (1 .. n) : p[1] < p[2] /\ close[p[2]] < close[p[1]]}
        recent == n - RsiDays + 1 .. n
        lost   == \E i \in recent : close[i] < close[i - 1]
        gained == \E i \in recent : close[i] > close[i - 1]
    IN  n >= MinHistory =>
        /\ t.data_warnings = {f \in DOMAIN fig : Short(f)}
        /\ \A m \in DOMAIN Months : n = Months[m] + 1 => fig[m] = fig.return_1y_pct
        /\ \A f \in Returns \ t.data_warnings : 10 * fig.max_drawdown_1y_pct <= fig[f] + 5
        /\ fig.max_drawdown_1y_pct \in -1000 .. 0
        /\ fallen = {} => fig.max_drawdown_1y_pct = 0
        /\ fig.max_drawdown_1y_pct = 0 =>
              \A p \in fallen : 2000 * (close[p[1]] - close[p[2]]) <= close[p[1]]
        /\ fig.rsi_14 \in 0 .. 1000
        /\ ~lost => fig.rsi_14 = 1000
        /\ lost /\ ~gained => fig.rsi_14 = 0
        /\ "sma_50" \notin t.data_warnings =>
              CoherentAverage(close, ShortDays, fig.sma_50, fig.price_vs_sma50_pct)
        /\ "sma_200" \notin t.data_warnings =>
              CoherentAverage(close, LongDays, fig.sma_200, fig.price_vs_sma200_pct)

\* Whatever the provider has is passed on as it is, and whatever it lacks is null and
\* reported missing; so is an empty list of news, however many headlines were asked for.
ReportedGaps(fields, known) ==
    LET answer == InfoTool(fields, [f \in known |-> f])
        news   == News([k \in 1 .. Cardinality(known) |-> k])
    IN  /\ answer.data_warnings = fields \ known
        /\ \A f \in known : answer.figures[f] = f
        /\ news.headlines = <<>> <=> news.data_warnings # {}
        /\ Len(news.headlines) <= NewsLimit
=============================================================================
