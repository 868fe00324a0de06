\* Packets around the wrap of the sequence number.
CONSTANTS
  SeqSpace = 7
  m_max_packets = 3
  Packets <- MCAroundWrap
SPECIFICATION Spec
PROPERTY DropsOldest
