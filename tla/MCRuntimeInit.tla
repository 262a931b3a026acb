---------------------------- MODULE MCRuntimeInit ----------------------------
EXTENDS RuntimeInit

CONSTANTS nvidia, k20, m2070, intel, xeon, altera

MCTypes == <<nvidia, m2070, k20, intel, xeon, altera>>
MCVendor == [m \in {m2070, k20, xeon} |-> IF m = xeon THEN intel ELSE nvidia]

P(vendor, models) == [vendor |-> vendor, models |-> models]

Gpus == {<<>>, <<k20>>, <<m2070, k20>>, <<k20, k20, m2070>>, <<k20, m2070, k20>>,
         <<m2070, Unknown, k20>>, <<Unknown>>}
Cpus == {<<>>, <<xeon>>, <<xeon, xeon, k20>>}

\* No platform, one or two in either order, also a foreign one and two of one
\* vendor.
MCWorlds ==
  {<<>>}
  \cup {<<P(nvidia, g)>> : g \in Gpus}
  \cup {<<P(nvidia, g), P(intel, c)>> : g \in Gpus, c \in Cpus}
  \cup {<<P(intel, c), P(nvidia, g)>> : g \in Gpus, c \in Cpus}
  \cup {<<P(Unknown, c), P(nvidia, g), P(intel, <<xeon>>)>> : g \in Gpus, c \in Cpus}
  \cup {<<P(nvidia, <<k20>>), P(nvidia, g)>> : g \in Gpus}
==============================================================================
