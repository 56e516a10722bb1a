----------------------- MODULE MCCalibrationSession -----------------------
EXTENDS CalibrationSession

Line(funnel, submit, repeat) ==
  [funnel |-> funnel, fallback |-> TRUE, complete |-> TRUE, submit |-> submit,
   repeat |-> repeat, tolerate |-> repeat]

\* A passive calibration, and funnels that do not submit, fill or submit forms.
MCConfigs ==
  {Line(FALSE, "disabled", FALSE), Line(TRUE, "allowlisted", TRUE),
   Line(TRUE, "allowlisted", FALSE), Line(TRUE, "fill_only", FALSE),
   [Line(TRUE, "disabled", FALSE) EXCEPT !.fallback = FALSE],
   [Line(TRUE, "allowlisted", FALSE) EXCEPT !.complete = FALSE]}
=============================================================================
