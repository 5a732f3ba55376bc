\* Three threads; tickets of the ticket lock wrap after every fourth, those of
\* the DRDPA lock are bounded.  One thread tests the DRDPA lock, whose area
\* expands and contracts.
SPECIFICATION UserSpec
CONSTANTS
  N = 3
  Mod = 4
  MaxDepth = 2
  Testers = {1}
  Oversubscribed = {TRUE, FALSE}
  MaxTicket = 6
INVARIANTS MutualExclusion NestingIsExact AreasAreSafe
PROPERTIES TicketIsServed ServedInOrder
CHECK_DEADLOCK FALSE
