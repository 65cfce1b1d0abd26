------------------------------- MODULE UiChart -------------------------------
(***************************************************************************)
(* What the chart of the UI kit (frontend/components/ui/chart.tsx) shows   *)
(* around the library that draws it (recharts): the tooltip, the legend    *)
(* and the color variables of its themes.  No page mounts it.              *)
(*                                                                         *)
(* An item of a payload has its own text fields, the text fields of its    *)
(* data point, and a value ("absent", "zero" or "number"); "" is a missing *)
(* or empty text.  A config maps keys to [label, icon].                    *)
(***************************************************************************)
LOCAL INSTANCE Integers
LOCAL INSTANCE Sequences

TextOf(fields, key) == IF key \in DOMAIN fields THEN fields[key] ELSE ""

\* a || b || ... over texts.
FirstGiven(texts) ==
    LET given == SelectSeq(texts, LAMBDA t : t # "") IN IF given = <<>> THEN "" ELSE given[1]

NoEntry == [label |-> "", icon |-> FALSE]

\* getPayloadConfigFromPayload: a text that the item, else its data point, has
\* under the key names the entry, if there is one; the key itself otherwise.
ItemConfig(config, item, key) ==
    LET named == IF key \in DOMAIN item.own THEN item.own[key]
                 ELSE IF key \in DOMAIN item.data THEN item.data[key] ELSE key
        entry == IF named \in DOMAIN config THEN named ELSE key
    IN  IF entry \in DOMAIN config THEN config[entry] ELSE NoEntry

HeadingKey(tip, item) ==
    FirstGiven(<<tip.labelKey, TextOf(item.own, "dataKey"), TextOf(item.own, "name"), "value">>)
RowKey(nameKey, item) ==
    FirstGiven(<<nameKey, TextOf(item.own, "name"), TextOf(item.own, "dataKey"), "value">>)
LegendKey(nameKey, item) == FirstGiven(<<nameKey, TextOf(item.own, "dataKey"), "value">>)

\* tooltipLabel: <<>> when there is none.  A labelFormatter is called even with
\* nothing to format.
TooltipLabel(config, tip) ==
    LET value == IF tip.labelKey = "" /\ tip.label # "not a string"
                 THEN FirstGiven(<<IF tip.label \in DOMAIN config THEN config[tip.label].label ELSE "",
                                   tip.label>>)
                 ELSE ItemConfig(config, tip.payload[1], HeadingKey(tip, tip.payload[1])).label
    IN  IF tip.hideLabel \/ tip.payload = <<>> THEN <<>>
        ELSE IF tip.labelFormatter THEN <<[formatted |-> TRUE, text |-> value]>>
        ELSE IF value = "" THEN <<>> ELSE <<[formatted |-> FALSE, text |-> value]>>

\* nestLabel: a single item without a dot has the label in its row.
NestLabel(tip) == Len(tip.payload) = 1 /\ tip.indicator # "dot"

\* One item's row.  A zero is not nothing: it is put there as plain text.
TooltipRow(config, tip, item) ==
    LET entry == ItemConfig(config, item, RowKey(tip.nameKey, item))
    IN  IF tip.formatter /\ item.value # "absent" /\ TextOf(item.own, "name") # ""
        THEN [formatted |-> TRUE, label |-> <<>>, name |-> "", mark |-> "none", color |-> "",
              value |-> "formatted"]
        ELSE [formatted |-> FALSE,
              label |-> IF NestLabel(tip) THEN TooltipLabel(config, tip) ELSE <<>>,
              name |-> FirstGiven(<<entry.label, TextOf(item.own, "name")>>),
              mark |-> IF entry.icon THEN "icon" ELSE IF tip.hideIndicator THEN "none" ELSE tip.indicator,
              color |-> FirstGiven(<<tip.color, TextOf(item.data, "fill"), TextOf(item.own, "color")>>),
              value |-> CASE item.value = "absent" -> "none" [] item.value = "zero" -> "plain"
                          [] OTHER -> "styled"]

ChartTooltipContent(config, tip) ==
    IF ~tip.active \/ tip.payload = <<>> THEN [heading |-> <<>>, rows |-> <<>>]
    ELSE [heading |-> IF NestLabel(tip) THEN <<>> ELSE TooltipLabel(config, tip),
          rows |-> [i \in DOMAIN tip.payload |-> TooltipRow(config, tip, tip.payload[i])]]

\* The legend names an item by its entry only: without a label it is a swatch.
ChartLegendContent(config, payload, nameKey, hideIcon) ==
    [i \in DOMAIN payload |->
        LET entry == ItemConfig(config, payload[i], LegendKey(nameKey, payload[i]))
        IN  [mark |-> IF entry.icon /\ ~hideIcon THEN "icon" ELSE TextOf(payload[i].own, "color"),
             name |-> entry.label]]

\* ChartStyle: a theme's variables, from entries with a color for each theme or
\* one for all (then theme is the empty function).
ColorVariables(colors, theme) ==
    LET color(key) == FirstGiven(<<TextOf(colors[key].theme, theme), colors[key].color>>)
    IN  [key \in {k \in DOMAIN colors : color(k) # ""} |-> color(key)]

-----------------------------------------------------------------------------
\* Sample inputs.
PartialFns(domain, range) == UNION {[d -> range] : d \in SUBSET domain}

ChartConfigs == PartialFns({"a", "b"}, {NoEntry, [label |-> "A", icon |-> TRUE]})

ChartItems ==
    {[own |-> own, data |-> data, value |-> value] :
        own \in PartialFns({"dataKey", "name"}, {"", "a", "b"}),
        data \in PartialFns({"a"}, {"b", "c"}), value \in {"absent", "zero", "number"}}

Tips(payloads) ==
    [active : BOOLEAN, payload : payloads, indicator : {"dot", "line"}, label : {"not a string", "", "a"},
     labelKey : {"", "a"}, nameKey : {"", "a"}, hideLabel : BOOLEAN, hideIndicator : {FALSE},
     labelFormatter : BOOLEAN, formatter : BOOLEAN, color : {""}]

Config2 == [a |-> [label |-> "A", icon |-> TRUE], b |-> NoEntry]

\* The label of a shown tooltip is there once, above the rows or in the only row;
\* it is lost only when the caller's formatter replaces that row.
ASSUME LabelShownOnce ==
    \A item \in ChartItems : \A tip \in Tips({<<item>>, <<item, item>>}) :
        LET shown == ChartTooltipContent(Config2, tip)
            places == shown.heading \o shown.rows[1].label
                        \o (IF Len(shown.rows) = 2 THEN shown.rows[2].label ELSE <<>>)
        IN  tip.active =>
              places = IF /\ Len(tip.payload) = 1 /\ tip.indicator # "dot"
                          /\ shown.rows[1].formatted
                       THEN <<>>
                       ELSE TooltipLabel(Config2, tip)

\* An item has the same name in the tooltip and in the legend, when the legend
\* has one, unless its name and its dataKey are two different keys.
ASSUME LegendAgreesWithTooltip ==
    \A config \in ChartConfigs, item \in ChartItems, nameKey \in {"", "a", "name"} :
        LET row == TooltipRow(config, [active |-> TRUE, payload |-> <<item>>, indicator |-> "dot",
                                       label |-> "", labelKey |-> "", nameKey |-> nameKey,
                                       hideLabel |-> TRUE, hideIndicator |-> FALSE,
                                       labelFormatter |-> FALSE, formatter |-> FALSE, color |-> ""], item)
            legend == ChartLegendContent(config, <<item>>, nameKey, FALSE)[1]
        IN  \/ legend.name \in {"", row.name} /\ (legend.mark = "icon" <=> row.mark = "icon")
            \/ nameKey = "" /\ TextOf(item.own, "name") \notin {"", TextOf(item.own, "dataKey")}

\* A chart that colors a key in one theme leaves it without a color in the other
\* only where a theme was given with an empty color.
ASSUME ThemesColorTheSameKeys ==
    \A colors \in PartialFns({"a", "b"},
                      [theme : {<<>>}, color : {"", "red"}]
                          \cup [theme : [{"light", "dark"} -> {"", "red", "blue"}], color : {""}]) :
        LET light == ColorVariables(colors, "light")
            dark == ColorVariables(colors, "dark")
        IN  (DOMAIN light \ DOMAIN dark) \cup (DOMAIN dark \ DOMAIN light)
              = {k \in DOMAIN colors : /\ colors[k].theme # <<>>
                                       /\ "" \in {colors[k].theme[t] : t \in {"light", "dark"}}
                                       /\ colors[k].theme["light"] # colors[k].theme["dark"]}
=============================================================================
